---- MODULE Spec2Model ----
(***************************************************************************)
(* A model of the nemo neuroimaging-pipeline orchestrator:                 *)
(*   - utils.py: submit_job, dice and the BIDS helpers;                    *)
(*   - the per-tool run modules (run_freesurfer, run_fmriprep, run_xcpd,   *)
(*     run_qsiprep, run_qsirecon) and their batch-script generators;       *)
(*   - run_workflow.main, the loop over subjects and sessions.             *)
(*                                                                         *)
(* Text (a log, the standard output of sbatch, a job id) is a sequence of  *)
(* one-character strings, so that strip, split, startswith and join are    *)
(* computed and not assumed.  Python's None, for a job id, is the empty    *)
(* sequence: a job id is a token of split() and is never empty.            *)
(***************************************************************************)
EXTENDS Integers, Sequences, FiniteSets, TLC

VARIABLES
    pc,                    \* position of the running function / of main
    arg,                   \* inputs of the function under check (function-level specifications)
    res,                   \* what the function returned and did
    workflow,              \* config["workflow"], the switches of main
    cursor,                \* main: index of the current subject and session
    freesurfer_job_id,     \* main: locals of the session loop
    qsiprep_job_id,
    fmriprep_job_id,
    xcpd_job_id,
    fmriprep_sub_job_ids,  \* main: fMRIPrep job ids of the current subject
    slurm,                 \* the batch jobs sbatch accepted in this run, in order
    raised,                \* main: the exception that ended it, and the stage it left
    run_config,            \* main: the configuration file, apart from its workflow section
    input_dir              \* main: whether BIDS_DIR exists, and the subjects that have a directory in it

vars == <<pc, arg, res, workflow, cursor, freesurfer_job_id, qsiprep_job_id,
          fmriprep_job_id, xcpd_job_id, fmriprep_sub_job_ids, slurm, raised,
          run_config, input_dir>>

mainVars == <<workflow, cursor, freesurfer_job_id, qsiprep_job_id,
              fmriprep_job_id, xcpd_job_id, fmriprep_sub_job_ids, slurm, raised,
              run_config, input_dir>>

funVars == <<arg, res>>

-----------------------------------------------------------------------------
(* Bounds of the model *)

MaxVox == 3        \* voxels of a mask array
MaxVal == 2        \* largest voxel value of a mask array
MaxTail == 3       \* characters of sbatch's output after its first words
MaxIdLen == 2      \* characters of a job id handed to a script generator
MaxDeps == 2       \* job ids handed to a script generator
MaxLines == 2      \* lines of recon-all-status.log
MaxLogs == 2       \* stdout logs of one tool for one subject and session
NSubjects == 2     \* subjects asked for in common.subjects
NSessions == 2     \* sessions asked for in common.sessions

-----------------------------------------------------------------------------
(* Python values *)

None == <<>>

Range(s) == {s[i] : i \in DOMAIN s}

SeqsUpTo(S, n) == UNION {[1..k -> S] : k \in 0..n}

RECURSIVE SumSeq(_)
SumSeq(s) == IF s = <<>> THEN 0 ELSE Head(s) + SumSeq(Tail(s))

\* [x for x in s if x is not None]
FilterNotNone(s) == SelectSeq(s, LAMBDA x : x # None)

-----------------------------------------------------------------------------
(* str methods *)

Whitespace == {" ", "\n", "\t"}

RECURSIVE lstrip(_)
lstrip(s) == IF s # <<>> /\ Head(s) \in Whitespace THEN lstrip(Tail(s)) ELSE s

RECURSIVE rstrip(_)
rstrip(s) ==
    IF s # <<>> /\ s[Len(s)] \in Whitespace
    THEN rstrip(SubSeq(s, 1, Len(s) - 1))
    ELSE s

strip(s) == rstrip(lstrip(s))

startswith(s, prefix) ==
    /\ Len(prefix) <= Len(s)
    /\ SubSeq(s, 1, Len(prefix)) = prefix

\* s.split(): the maximal runs of non-whitespace characters, in order
RECURSIVE splitFrom(_, _, _)
splitFrom(s, cur, acc) ==
    IF s = <<>>
    THEN IF cur = <<>> THEN acc ELSE Append(acc, cur)
    ELSE IF Head(s) \in Whitespace
         THEN splitFrom(Tail(s), <<>>, IF cur = <<>> THEN acc ELSE Append(acc, cur))
         ELSE splitFrom(Tail(s), Append(cur, Head(s)), acc)

split(s) == splitFrom(s, <<>>, <<>>)

\* sep.join(parts)
RECURSIVE join(_, _)
join(sep, parts) ==
    IF parts = <<>> THEN <<>>
    ELSE IF Len(parts) = 1 THEN parts[1]
    ELSE parts[1] \o sep \o join(sep, Tail(parts))

\* str(n) for a natural number n
Digit(d) == CASE d = 0 -> "0" [] d = 1 -> "1" [] d = 2 -> "2" [] d = 3 -> "3"
              [] d = 4 -> "4" [] d = 5 -> "5" [] d = 6 -> "6" [] d = 7 -> "7"
              [] d = 8 -> "8" [] d = 9 -> "9"

RECURSIVE str(_)
str(n) == IF n < 10 THEN <<Digit(n)>> ELSE Append(str(n \div 10), Digit(n % 10))

-----------------------------------------------------------------------------
(* utils.submit_job *)

SubmittedBatchJob ==
    <<"S","u","b","m","i","t","t","e","d"," ","b","a","t","c","h"," ","j","o","b">>

\* subprocess.run(cmd, shell=True, check=True, text=True, capture_output=True):
\* a process is its exit status and its standard output; check=True raises
\* CalledProcessError on a non-zero exit status.
subprocess_run(proc) ==
    IF proc.returncode # 0
    THEN [raised |-> "CalledProcessError", stdout |-> <<>>]
    ELSE [raised |-> "", stdout |-> proc.stdout]

\* keeps the startswith test but forgets that check=True raises
submit_job_unchecked(proc) ==
    LET output == strip(proc.stdout)
    IN  IF startswith(output, SubmittedBatchJob)
        THEN [ret |-> split(output)[Len(split(output))], raised |-> ""]
        ELSE [ret |-> None, raised |-> ""]

submit_job(proc) ==
    LET result == subprocess_run(proc)
        output == strip(result.stdout)
    IN  IF result.raised = "CalledProcessError"
        THEN [ret |-> None, raised |-> ""]
        ELSE IF startswith(output, SubmittedBatchJob)
             THEN IF split(output) = <<>>
                  THEN [ret |-> None, raised |-> "IndexError"]
                  ELSE [ret |-> split(output)[Len(split(output))], raised |-> ""]
             ELSE [ret |-> None, raised |-> ""]

-----------------------------------------------------------------------------
(* utils.dice *)

astype_bool(a) == [i \in DOMAIN a |-> a[i] # 0]

logical_and(a, b) == [i \in DOMAIN a |-> a[i] /\ b[i]]

\* ndarray.sum() of a boolean array counts its True elements
sum_bool(a) == SumSeq([i \in DOMAIN a |-> IF a[i] THEN 1 ELSE 0])

\* a quotient is kept as the pair of its numerator and denominator
NaN == [nan |-> TRUE, num |-> 0, den |-> 0]

Quotient(n, d) == [nan |-> FALSE, num |-> n, den |-> d]

\* sums the raw voxel values, as if the masks had not been cast to bool
dice_uncast(a, b) ==
    LET inter == sum_bool(logical_and(astype_bool(a), astype_bool(b)))
        s == SumSeq(a) + SumSeq(b)
    IN  IF s > 0 THEN Quotient(2 * inter, s) ELSE NaN

dice(a, b) ==
    LET a_ == astype_bool(a)
        b_ == astype_bool(b)
        inter == sum_bool(logical_and(a_, b_))
        s == sum_bool(a_) + sum_bool(b_)
    IN  IF s > 0 THEN Quotient(2 * inter, s) ELSE NaN

-----------------------------------------------------------------------------
(* The batch-script generators.  A script is the sequence of its header      *)
(* lines; a line is the pair of its fixed text and of the value that follows *)
(* it.  The job_ids parameter is None or a list of job ids.                  *)

NoJobIds == [none |-> TRUE, ids |-> <<>>]

JobIds(ids) == [none |-> FALSE, ids |-> ids]

\* Python's truth value of job_ids: neither None nor the empty list
Truthy(job_ids) == ~job_ids.none /\ job_ids.ids # <<>>

DependencyLine == "#SBATCH --dependency=afterok:"

MailLines(config) ==
    IF config.common.email
    THEN << <<"#SBATCH --mail-type=", <<"email_frequency">> >>,
            <<"#SBATCH --mail-user=", <<"email">> >> >>
    ELSE <<>>

AccountLines(config) ==
    IF config.common.account
    THEN << <<"#SBATCH --account=", <<"account">> >> >>
    ELSE <<>>

ResourceLines(tool, stem, subject, session) ==
    << <<"#!/bin/bash", <<>> >>,
       <<"#SBATCH --job-name=", <<tool, subject, session>> >>,
       <<"#SBATCH --output=", <<stem, subject, session, "%j.out">> >>,
       <<"#SBATCH --error=", <<stem, subject, session, "%j.err">> >>,
       <<"#SBATCH --mem=", <<"requested_mem">> >>,
       <<"#SBATCH --time=", <<"requested_time">> >>,
       <<"#SBATCH --partition=", <<"partition">> >> >>

\* writes the dependency line whenever job_ids is a list, the empty one included
generate_slurm_fmriprep_script_not_none(config, subject, session, job_ids) ==
    ResourceLines("fmriprep", "fmriprep/stdout/fmriprep", subject, session)
    \o (IF ~job_ids.none
        THEN << <<DependencyLine, join(<<":">>, job_ids.ids)>> >>
        ELSE <<>>)
    \o MailLines(config)

generate_slurm_fmriprep_script(config, subject, session, job_ids) ==
    ResourceLines("fmriprep", "fmriprep/stdout/fmriprep", subject, session)
    \o (IF Truthy(job_ids)
        THEN << <<DependencyLine, join(<<":">>, job_ids.ids)>> >>
        ELSE <<>>)
    \o MailLines(config)

\* [str(jid) for jid in job_ids if isinstance(jid, str) and jid.strip()]
valid_ids(ids) == SelectSeq(ids, LAMBDA jid : strip(jid) # <<>>)

generate_slurm_xcpd_script(config, subject, session, job_ids) ==
    ResourceLines("xcpd", "xcp_d/stdout/xcp_d", subject, session)
    \o (IF Truthy(job_ids) /\ valid_ids(job_ids.ids) # <<>>
        THEN << <<DependencyLine, join(<<":">>, valid_ids(job_ids.ids))>> >>
        ELSE <<>>)
    \o MailLines(config)
    \o AccountLines(config)

qc_qsiprep_generate_slurm_script(config, subject, session, job_ids) ==
    ResourceLines("qc_qsiprep", "qc/qsiprep/stdout/qc_qsiprep", subject, session)
    \o (IF Truthy(job_ids)
        THEN << <<DependencyLine, join(<<":">>, job_ids.ids)>> >>
        ELSE <<>>)
    \o MailLines(config)
    \o AccountLines(config)

-----------------------------------------------------------------------------
(* dwi/run_qsirecon.check_preprocessing_completion.  Of the file system it   *)
(* reads: whether <derivatives>/freesurfer/<subject>_<session> exists;       *)
(* recon-all-status.log, each line kept as whether it contains 'finished     *)
(* without error'; whether qsiprep/stdout exists; and its listing, each      *)
(* entry kept as whether its name starts with qsiprep_<subject>_<session>    *)
(* and ends with .out, and whether its text contains the success message.    *)

\* [f for f in os.listdir(stdout_dir) if f.startswith(prefix) and f.endswith('.out')]
stdout_files(listing) == SelectSeq(listing, LAMBDA f : f.named)

\* the first index of a line of the log that does not contain the words, or 0
FirstOtherLine(lines) ==
    IF \E i \in DOMAIN lines : ~lines[i]
    THEN CHOOSE i \in DOMAIN lines : ~lines[i] /\ \A j \in 1..(i - 1) : lines[j]
    ELSE 0

check_preprocessing_completion(fs) ==
    IF ~fs.fs_dir
    THEN [ret |-> FALSE, raised |-> ""]
    ELSE IF ~fs.status_log.exists
    THEN [ret |-> FALSE, raised |-> "FileNotFoundError"]
    ELSE IF FirstOtherLine(fs.status_log.lines) # 0
    THEN [ret |-> FALSE, raised |-> ""]
    ELSE IF ~fs.qsiprep_stdout_dir
    THEN [ret |-> FALSE, raised |-> ""]
    ELSE IF stdout_files(fs.qsiprep_listing) = <<>>
    THEN [ret |-> FALSE, raised |-> ""]
    ELSE IF \E i \in DOMAIN stdout_files(fs.qsiprep_listing) :
                stdout_files(fs.qsiprep_listing)[i].success
    THEN [ret |-> TRUE, raised |-> ""]
    ELSE [ret |-> FALSE, raised |-> ""]

-----------------------------------------------------------------------------
(* The run modules.  Each reads and changes the files of one subject and     *)
(* session and may call sbatch once; sbatch is the process that the call     *)
(* would start (its exit status and standard output).  Each returns what the *)
(* function returned (ret), the exception that left it (raised, "" if none), *)
(* the file system it leaves (fs), and the scripts it handed to sbatch       *)
(* (submitted).                                                              *)

\* os.makedirs(d, exist_ok=True) for every d of the set
makedirs(fs, created) == [fs EXCEPT !.dirs = @ \cup created]

\* some entry of a listing of stdout files contains the success message
AnySuccess(files) == \E i \in DOMAIN files : files[i].success

(* anat/run_freesurfer *)

\* checks the T1w image only, whatever freesurfer.use_t2 says
check_prerequisites_t1_only(config, fs) == fs.t1w

check_prerequisites(config, fs) ==
    /\ fs.t1w
    /\ config.freesurfer.use_t2 => fs.t2w

\* shutil.rmtree(output_dir)
rmtree_fs_dir(fs) ==
    [fs EXCEPT !.fs_dir = FALSE, !.status_log = [exists |-> FALSE, lines |-> <<>>]]

freesurfer_is_already_processed(config, fs, clear_fs) ==
    IF ~fs.fs_dir
    THEN [ret |-> FALSE, raised |-> "", fs |-> fs]
    ELSE IF ~fs.status_log.exists
    THEN [ret |-> FALSE, raised |-> "FileNotFoundError", fs |-> fs]
    ELSE IF (\E i \in DOMAIN fs.status_log.lines : fs.status_log.lines[i])
            /\ config.freesurfer.skip_processed
    THEN [ret |-> FALSE, raised |-> "", fs |-> fs]
    ELSE [ret |-> TRUE, raised |-> "",
          fs |-> IF clear_fs THEN rmtree_fs_dir(fs) ELSE fs]

FreesurferDirs ==
    {"freesurfer", "freesurfer/stdout", "freesurfer/scripts", "freesurfer/outputs"}

freesurfer_generate_slurm_script(config, subject, session) ==
    << <<"#!/bin/bash", <<>> >>,
       <<"#SBATCH -J ", <<"freesurfer", subject, session>> >>,
       <<"#SBATCH -p ", <<"partition">> >>,
       <<"#SBATCH --nodes=", <<"1">> >>,
       <<"#SBATCH --mem=", <<"requested_mem">> >>,
       <<"#SBATCH -t ", <<"requested_time">> >>,
       <<"#SBATCH -e ", <<"freesurfer/stdout/%x_job-%j.err">> >>,
       <<"#SBATCH -o ", <<"freesurfer/stdout/%x_job-%j.out">> >> >>
    \o MailLines(config)
    \o AccountLines(config)

run_freesurfer(config, fs, subject, session, sbatch) ==
    IF ~check_prerequisites(config, fs)
    THEN [ret |-> None, raised |-> "", fs |-> fs, submitted |-> <<>>]
    ELSE LET done == freesurfer_is_already_processed(config, fs, TRUE)
             script == freesurfer_generate_slurm_script(config, subject, session)
         IN  IF done.raised # ""
             THEN [ret |-> None, raised |-> done.raised, fs |-> done.fs, submitted |-> <<>>]
             ELSE IF done.ret
             THEN [ret |-> None, raised |-> "", fs |-> done.fs, submitted |-> <<>>]
             ELSE [ret |-> submit_job(sbatch).ret,
                   raised |-> submit_job(sbatch).raised,
                   fs |-> [makedirs(done.fs, FreesurferDirs) EXCEPT
                              !.scripts = @ \cup {"freesurfer.slurm"}],
                   submitted |-> <<script>>]

(* rsfmri/run_fmriprep *)

\* utils.has_func_fmap
has_func_fmap(fs) == fs.has_bold /\ fs.has_fmap

fmriprep_is_already_processed(fs) ==
    IF ~fs.has_anat THEN FALSE
    ELSE IF ~has_func_fmap(fs) THEN FALSE
    ELSE IF ~fs.fmriprep_output_dir THEN FALSE
    ELSE IF "fmriprep/stdout" \notin fs.dirs THEN FALSE
    ELSE IF stdout_files(fs.fmriprep_listing) = <<>> THEN FALSE
    ELSE AnySuccess(stdout_files(fs.fmriprep_listing))

FmriprepDirs ==
    {"fmriprep", "fmriprep/outputs", "fmriprep/work", "fmriprep/stdout", "fmriprep/scripts"}

run_fmriprep(config, fs, subject, session, job_ids, sbatch) ==
    IF fmriprep_is_already_processed(fs) /\ config.fmriprep.skip_processed
    THEN [ret |-> None, raised |-> "", fs |-> fs, submitted |-> <<>>]
    ELSE [ret |-> submit_job(sbatch).ret,
          raised |-> submit_job(sbatch).raised,
          fs |-> [makedirs(fs, FmriprepDirs) EXCEPT
                     !.scripts = @ \cup {"fmriprep.slurm"}],
          submitted |-> <<generate_slurm_fmriprep_script(config, subject, session, job_ids)>>]

(* rsfmri/run_xcpd *)

\* returns from inside the first iteration of the loop over the stdout files
xcpd_is_already_processed(fs) ==
    IF "xcp_d/stdout" \notin fs.dirs THEN FALSE
    ELSE IF stdout_files(fs.xcpd_listing) = <<>> THEN FALSE
    ELSE stdout_files(fs.xcpd_listing)[1].success

XcpdDirs == {"xcp_d", "xcp_d/outputs", "xcp_d/stdout", "xcp_d/scripts", "xcp_d/work"}

run_xcpd(config, fs, subject, session, job_ids, sbatch) ==
    LET made == makedirs(fs, XcpdDirs)
    IN  IF xcpd_is_already_processed(made)
        THEN [ret |-> None, raised |-> "", fs |-> made, submitted |-> <<>>]
        ELSE IF fmriprep_is_already_processed(made) = FALSE /\ job_ids.none
        THEN [ret |-> None, raised |-> "", fs |-> made, submitted |-> <<>>]
        ELSE [ret |-> submit_job(sbatch).ret,
              raised |-> submit_job(sbatch).raised,
              fs |-> [made EXCEPT !.scripts = @ \cup {"xcp_d.slurm"}],
              submitted |-> <<generate_slurm_xcpd_script(config, subject, session, job_ids)>>]

(* dwi/run_qsiprep and dwi/run_qsirecon *)

\* a call with more positional arguments than the function has parameters
\* raises TypeError before the function's body runs
TooManyPositional(given, parameters) == given > parameters

\* def generate_slurm_script(subject, session, path_to_script, job_ids=None)
qsiprep_generate_slurm_script_parameters == 4

\* def run_qsirecon(subject, session, job_ids=None)
run_qsirecon_parameters == 3

DwiResourceLines(tool, subject, session) ==
    << <<"#!/bin/bash", <<>> >>,
       <<"#SBATCH -J ", <<tool, subject, session>> >>,
       <<"#SBATCH -p ", <<"partition">> >>,
       <<"#SBATCH --gpus-per-node=", <<"gpu_per_node">> >>,
       <<"#SBATCH --nodes=", <<"1">> >>,
       <<"#SBATCH --mem=", <<"requested_mem", "gb">> >>,
       <<"#SBATCH -t ", <<"requested_time", ":00:00">> >>,
       <<"#SBATCH -e ", <<tool, "/stdout/%x_job-%j.err">> >>,
       <<"#SBATCH -o ", <<tool, "/stdout/%x_job-%j.out">> >> >>

qsirecon_generate_slurm_script(config, subject, session, job_ids) ==
    DwiResourceLines("qsirecon", subject, session)
    \o (IF Truthy(job_ids)
        THEN << <<DependencyLine, join(<<":">>, job_ids.ids)>> >>
        ELSE <<>>)
    \o (IF config.common.email
        THEN << <<"#SBATCH --mail-type=", <<"BEGIN,END">> >>,
                <<"#SBATCH --mail-user=", <<"email">> >> >>
        ELSE <<>>)
    \o AccountLines(config)

qsiprep_is_already_processed(fs) ==
    IF "qsiprep/stdout" \notin fs.dirs THEN FALSE
    ELSE IF stdout_files(fs.qsiprep_listing) = <<>> THEN FALSE
    ELSE AnySuccess(stdout_files(fs.qsiprep_listing))

QsiprepDirs == {"qsiprep", "qsiprep/stdout", "qsiprep/scripts"}

\* run_qsiprep(args, subject, session, job_ids=None): it hands five positional
\* arguments (args, subject, session, path_to_script, job_ids) to its
\* generate_slurm_script
run_qsiprep(config, fs, subject, session, job_ids, sbatch) ==
    IF qsiprep_is_already_processed(fs)
    THEN [ret |-> None, raised |-> "", fs |-> fs, submitted |-> <<>>]
    ELSE IF TooManyPositional(5, qsiprep_generate_slurm_script_parameters)
    THEN [ret |-> None, raised |-> "TypeError", fs |-> makedirs(fs, QsiprepDirs),
          submitted |-> <<>>]
    ELSE [ret |-> submit_job(sbatch).ret,
          raised |-> submit_job(sbatch).raised,
          fs |-> [makedirs(fs, QsiprepDirs) EXCEPT !.scripts = @ \cup {"qsiprep.slurm"}],
          submitted |-> <<DwiResourceLines("qsiprep", subject, session)>>]

QsireconDirs == {"qsirecon", "qsirecon/stdout", "qsirecon/scripts"}

\* run_qsirecon(subject, session, job_ids=None)
run_qsirecon(config, fs, subject, session, job_ids, sbatch) ==
    [ret |-> submit_job(sbatch).ret,
     raised |-> submit_job(sbatch).raised,
     fs |-> [makedirs(fs, QsireconDirs) EXCEPT !.scripts = @ \cup {"qsirecon.slurm"}],
     submitted |-> <<qsirecon_generate_slurm_script(config, subject, session, job_ids)>>]

(* rsfmri/run_mriqc_raw *)

mriqc_is_already_processed(fs) ==
    IF "mriqc_raw/stdout" \notin fs.dirs THEN FALSE
    ELSE IF stdout_files(fs.mriqc_listing) = <<>> THEN FALSE
    ELSE AnySuccess(stdout_files(fs.mriqc_listing))

MriqcRawDirs ==
    {"mriqc_raw", "mriqc_raw/outputs", "mriqc_raw/stdout", "mriqc_raw/scripts",
     "mriqc_raw/work"}

generate_slurm_mriqc_script(config, subject, session, job_ids) ==
    ResourceLines("mriqc_raw", "mriqc_raw/stdout/mriqc_raw", subject, session)
    \o (IF Truthy(job_ids)
        THEN << <<DependencyLine, join(<<":">>, job_ids.ids)>> >>
        ELSE <<>>)
    \o MailLines(config)
    \o AccountLines(config)

\* run_mriqc(config, subject, session, data_type="raw", job_ids=None)
run_mriqc(config, fs, subject, session, job_ids, sbatch) ==
    LET made == makedirs(fs, MriqcRawDirs)
    IN  IF mriqc_is_already_processed(made)
        THEN [ret |-> None, raised |-> "", fs |-> made, submitted |-> <<>>]
        ELSE [ret |-> submit_job(sbatch).ret,
              raised |-> submit_job(sbatch).raised,
              fs |-> [made EXCEPT !.scripts = @ \cup {"mriqc.slurm"}],
              submitted |-> <<generate_slurm_mriqc_script(config, subject, session, job_ids)>>]

-----------------------------------------------------------------------------
(* The function-level specifications leave main where it starts *)

NotRaised == [exc |-> "", stage |-> ""]

MainIdle ==
    /\ workflow = <<>>
    /\ cursor = <<>>
    /\ freesurfer_job_id = None
    /\ qsiprep_job_id = None
    /\ fmriprep_job_id = None
    /\ xcpd_job_id = None
    /\ fmriprep_sub_job_ids = <<>>
    /\ slurm = <<>>
    /\ raised = NotRaised
    /\ run_config = <<>>
    /\ input_dir = <<>>

-----------------------------------------------------------------------------
(* SpecDice: dice applied to every pair of equally shaped arrays *)

MaskArrays == SeqsUpTo(0..MaxVal, MaxVox)

InitDice ==
    /\ pc = "dice"
    /\ arg \in {[a |-> a, b |-> b] : a \in MaskArrays, b \in MaskArrays}
    /\ Len(arg.a) = Len(arg.b)
    /\ res = <<>>
    /\ MainIdle

CallDice ==
    /\ pc = "dice"
    /\ res' = dice(arg.a, arg.b)
    /\ pc' = "dice_done"
    /\ UNCHANGED <<arg, mainVars>>

SpecDice == InitDice /\ [][CallDice]_vars

Inside(a) == {i \in DOMAIN a : a[i] # 0}

\* C4: for equally shaped masks a and b, any non-zero element being inside the
\* mask, dice(a, b) is 2*|A n B| / (|A|+|B|) whenever |A|+|B| > 0, and is NaN,
\* without raising, when both masks are empty.
C4_DiceIsOverlapRatio ==
    pc = "dice_done" =>
        LET A == Inside(arg.a)
            B == Inside(arg.b)
            total == Cardinality(A) + Cardinality(B)
        IN  IF total > 0
            THEN /\ ~res.nan
                 /\ res.den # 0
                 /\ res.num * total = 2 * Cardinality(A \cap B) * res.den
            ELSE res.nan

C4_Witness ==
    /\ pc = "dice_done"
    /\ ~res.nan
    /\ \E i \in DOMAIN arg.a : arg.a[i] > 1 /\ arg.b[i] # 0
    /\ \E i \in DOMAIN arg.a : arg.a[i] # 0 /\ arg.b[i] = 0

-----------------------------------------------------------------------------
(* SpecSubmit: submit_job applied to every outcome of the sbatch command *)

StdoutPads == {<<>>, <<" ">>, <<"\n">>}

StdoutHeads ==
    { SubmittedBatchJob,
      SubSeq(SubmittedBatchJob, 1, 15),
      <<"s","b","a","t","c","h",":"," ","e","r","r","o","r">>,
      <<>> }

StdoutTailChars == {" ", "\n", "1", "7"}

Stdouts ==
    {pad \o head \o tail : pad \in StdoutPads, head \in StdoutHeads,
                           tail \in SeqsUpTo(StdoutTailChars, MaxTail)}

InitSubmit ==
    /\ pc = "submit_job"
    /\ arg \in [returncode : {0, 1}, stdout : Stdouts]
    /\ res = <<>>
    /\ MainIdle

CallSubmit ==
    /\ pc = "submit_job"
    /\ res' = submit_job(arg)
    /\ pc' = "submit_job_done"
    /\ UNCHANGED <<arg, mainVars>>

SpecSubmit == InitSubmit /\ [][CallSubmit]_vars

\* the text starts, after leading whitespace only, with the given words
StartsAfterBlanks(s, words) ==
    \E k \in 1..Len(s) :
        /\ \A m \in 1..(k - 1) : s[m] \in Whitespace
        /\ k + Len(words) - 1 <= Len(s)
        /\ SubSeq(s, k, k + Len(words) - 1) = words

\* the last maximal run of non-whitespace characters of a text that has one
LastToken(s) ==
    LET last == CHOOSE j \in DOMAIN s :
                    /\ s[j] \notin Whitespace
                    /\ \A m \in (j + 1)..Len(s) : s[m] \in Whitespace
        first == CHOOSE i \in 1..last :
                    /\ \A m \in i..last : s[m] \notin Whitespace
                    /\ i = 1 \/ s[i - 1] \in Whitespace
    IN  SubSeq(s, first, last)

\* C9: submit_job returns the job id, the last whitespace-separated token of
\* the command's standard output, exactly when the command exits with status 0
\* and its stripped output starts with 'Submitted batch job'; in every other
\* case it returns None; it never raises.
C9_SubmitJobReturnsLastToken ==
    pc = "submit_job_done" =>
        /\ res.raised = ""
        /\ IF arg.returncode = 0 /\ StartsAfterBlanks(arg.stdout, SubmittedBatchJob)
           THEN res.ret # None /\ res.ret = LastToken(arg.stdout)
           ELSE res.ret = None

C9_Witness ==
    /\ pc = "submit_job_done"
    /\ arg.returncode = 0
    /\ res.ret = <<"7">>
    /\ Head(arg.stdout) \in Whitespace
    /\ arg.stdout[Len(arg.stdout)] \in Whitespace

-----------------------------------------------------------------------------
(* SpecScript: the three generators applied to every list of job ids *)

JobIdChars == {"1", "2"}

GivenJobIds == SeqsUpTo(JobIdChars, MaxIdLen) \ {<<>>}

JobIdsArgs == {NoJobIds} \cup {JobIds(ids) : ids \in SeqsUpTo(GivenJobIds, MaxDeps)}

Generators == {"fmriprep", "xcpd", "qc_qsiprep"}

Generate(gen, config, subject, session, job_ids) ==
    CASE gen = "fmriprep" -> generate_slurm_fmriprep_script(config, subject, session, job_ids)
      [] gen = "xcpd" -> generate_slurm_xcpd_script(config, subject, session, job_ids)
      [] gen = "qc_qsiprep" -> qc_qsiprep_generate_slurm_script(config, subject, session, job_ids)

InitScript ==
    /\ pc = "generate"
    /\ arg \in [gen : Generators, job_ids : JobIdsArgs,
                config : [common : [email : BOOLEAN, account : BOOLEAN]]]
    /\ res = <<>>
    /\ MainIdle

CallGenerate ==
    /\ pc = "generate"
    /\ res' = Generate(arg.gen, arg.config, "sub-01", "ses-01", arg.job_ids)
    /\ pc' = "generate_done"
    /\ UNCHANGED <<arg, mainVars>>

SpecScript == InitScript /\ [][CallGenerate]_vars

\* the texts between the colons of a value, in order
RECURSIVE FieldsFrom(_, _, _)
FieldsFrom(s, cur, acc) ==
    IF s = <<>> THEN Append(acc, cur)
    ELSE IF Head(s) = ":" THEN FieldsFrom(Tail(s), <<>>, Append(acc, cur))
    ELSE FieldsFrom(Tail(s), Append(cur, Head(s)), acc)

DependencyLinesOf(script) == {i \in DOMAIN script : script[i][1] = DependencyLine}

-----------------------------------------------------------------------------
(* SpecPrep: check_preprocessing_completion on every state of the FreeSurfer *)
(* and QSIPrep outputs of one subject and session                            *)

StatusLogs ==
    {[exists |-> FALSE, lines |-> <<>>]}
    \cup {[exists |-> TRUE, lines |-> l] : l \in SeqsUpTo(BOOLEAN, MaxLines)}

Listings == SeqsUpTo([named : BOOLEAN, success : BOOLEAN], MaxLogs)

PrepFileSystems ==
    {fs \in [fs_dir : BOOLEAN, status_log : StatusLogs,
             qsiprep_stdout_dir : BOOLEAN, qsiprep_listing : Listings] :
        /\ ~fs.fs_dir => ~fs.status_log.exists
        /\ ~fs.qsiprep_stdout_dir => fs.qsiprep_listing = <<>>}

InitPrep ==
    /\ pc = "check_preprocessing_completion"
    /\ arg \in PrepFileSystems
    /\ res = <<>>
    /\ MainIdle

CallPrep ==
    /\ pc = "check_preprocessing_completion"
    /\ res' = check_preprocessing_completion(arg)
    /\ pc' = "check_preprocessing_completion_done"
    /\ UNCHANGED <<arg, mainVars>>

SpecPrep == InitPrep /\ [][CallPrep]_vars

FreeSurferFinished(fs) ==
    /\ fs.fs_dir
    /\ fs.status_log.exists
    /\ \E i \in DOMAIN fs.status_log.lines : fs.status_log.lines[i]

QsiprepFinished(fs) ==
    /\ fs.qsiprep_stdout_dir
    /\ \E i \in DOMAIN fs.qsiprep_listing :
           fs.qsiprep_listing[i].named /\ fs.qsiprep_listing[i].success

\* C8: check_preprocessing_completion returns True if and only if the
\* FreeSurfer output directory exists, its recon-all-status.log contains
\* 'finished without error' and at least one QSIPrep stdout log of the
\* subject/session contains 'QSIPrep finished successfully!'; it returns False,
\* rather than raising, in every other case.
C8_PrepCompleteIffBothFinished ==
    pc = "check_preprocessing_completion_done" =>
        /\ res.raised = ""
        /\ res.ret <=> (FreeSurferFinished(arg) /\ QsiprepFinished(arg))

-----------------------------------------------------------------------------
(* What the run modules are applied to *)

Configs ==
    [common : [email : BOOLEAN, account : BOOLEAN],
     freesurfer : [use_t2 : BOOLEAN, skip_processed : BOOLEAN],
     fmriprep : [skip_processed : BOOLEAN]]

\* the sbatch command accepts the script, or fails
SbatchAccepts(n) == [returncode |-> 0,
                     stdout |-> SubmittedBatchJob \o <<" ">> \o str(n) \o <<"\n">>]

SbatchFails == [returncode |-> 1, stdout |-> <<>>]

SbatchOutcomes == {SbatchAccepts(17), SbatchFails}

\* the derivatives directories are all there (an earlier run made them) or none is
DirStates == {{}, FreesurferDirs \cup FmriprepDirs \cup XcpdDirs}

FreesurferFileSystems ==
    {fs \in [t1w : BOOLEAN, t2w : BOOLEAN, fs_dir : BOOLEAN, status_log : StatusLogs,
             dirs : DirStates, scripts : {{}}] :
        ~fs.fs_dir => ~fs.status_log.exists}

FmriprepFileSystems ==
    {fs \in [has_anat : BOOLEAN, has_bold : BOOLEAN, has_fmap : BOOLEAN,
             fmriprep_output_dir : BOOLEAN, fmriprep_listing : Listings,
             dirs : DirStates, scripts : {{}}] :
        /\ "fmriprep/stdout" \notin fs.dirs => fs.fmriprep_listing = <<>>
        /\ "fmriprep/outputs" \notin fs.dirs => ~fs.fmriprep_output_dir}

XcpdFileSystems ==
    {fs \in [has_anat : BOOLEAN, has_bold : BOOLEAN, has_fmap : BOOLEAN,
             fmriprep_output_dir : BOOLEAN, fmriprep_listing : Listings,
             xcpd_listing : Listings, dirs : DirStates, scripts : {{}}] :
        /\ "fmriprep/stdout" \notin fs.dirs => fs.fmriprep_listing = <<>>
        /\ "fmriprep/outputs" \notin fs.dirs => ~fs.fmriprep_output_dir
        /\ "xcp_d/stdout" \notin fs.dirs => fs.xcpd_listing = <<>>}

\* the lists of job ids main can pass: ids that sbatch printed
PendingJobIds == {JobIds(ids) : ids \in SeqsUpTo({<<"7">>, <<"1", "2">>}, MaxDeps)}

-----------------------------------------------------------------------------
(* SpecFreesurfer: run_freesurfer on every state of one session's files *)

InitFreesurfer ==
    /\ pc = "run_freesurfer"
    /\ arg \in [config : {c \in Configs : ~c.common.email /\ ~c.fmriprep.skip_processed},
                fs : FreesurferFileSystems, sbatch : SbatchOutcomes]
    /\ res = <<>>
    /\ MainIdle

CallFreesurfer ==
    /\ pc = "run_freesurfer"
    /\ res' = run_freesurfer(arg.config, arg.fs, "sub-01", "ses-01", arg.sbatch)
    /\ pc' = "run_freesurfer_done"
    /\ UNCHANGED <<arg, mainVars>>

SpecFreesurfer == InitFreesurfer /\ [][CallFreesurfer]_vars

\* the call handed a script to sbatch and sbatch accepted it
JobSubmitted == res.submitted # <<>> /\ arg.sbatch.returncode = 0

PrerequisitesMet(config, fs) == fs.t1w /\ (config.freesurfer.use_t2 => fs.t2w)

\* C3: given that the prerequisites are met, run_freesurfer skips submission
\* (returns None and submits no job) if and only if the subject/session was
\* already processed (its output directory exists and its
\* recon-all-status.log contains 'finished without error') and
\* freesurfer.skip_processed is true; in every other case it submits one new job.
C3_SkipsIffProcessedAndSkipChosen ==
    (pc = "run_freesurfer_done" /\ PrerequisitesMet(arg.config, arg.fs)) =>
        IF FreeSurferFinished(arg.fs) /\ arg.config.freesurfer.skip_processed
        THEN res.ret = None /\ res.submitted = <<>>
        ELSE Len(res.submitted) = 1

\* C7: run_freesurfer returns None, submits no job and creates or removes no
\* file or directory when the session's T1w image is missing, or when T2 use
\* is enabled and the session's T2w image is missing.
C7_MissingImageLeavesAllUntouched ==
    (pc = "run_freesurfer_done"
     /\ (~arg.fs.t1w \/ (arg.config.freesurfer.use_t2 /\ ~arg.fs.t2w))) =>
        /\ res.ret = None
        /\ res.raised = ""
        /\ res.submitted = <<>>
        /\ res.fs = arg.fs

C7_Witness ==
    /\ pc = "run_freesurfer_done"
    /\ arg.fs.t1w /\ arg.config.freesurfer.use_t2 /\ ~arg.fs.t2w
    /\ arg.fs.fs_dir /\ arg.fs.status_log.exists
    /\ arg.fs.dirs = {}
    /\ arg.sbatch.returncode = 0
    /\ res.ret = None

-----------------------------------------------------------------------------
(* SpecFmriprep: run_fmriprep on every state of one session's files *)

InitFmriprep ==
    /\ pc = "run_fmriprep"
    /\ arg \in [config : {c \in Configs : ~c.common.email /\ ~c.common.account
                                          /\ ~c.freesurfer.use_t2
                                          /\ ~c.freesurfer.skip_processed},
                fs : FmriprepFileSystems, job_ids : PendingJobIds,
                sbatch : SbatchOutcomes]
    /\ res = <<>>
    /\ MainIdle

CallFmriprep ==
    /\ pc = "run_fmriprep"
    /\ res' = run_fmriprep(arg.config, arg.fs, "sub-01", "ses-01", arg.job_ids, arg.sbatch)
    /\ pc' = "run_fmriprep_done"
    /\ UNCHANGED <<arg, mainVars>>

SpecFmriprep == InitFmriprep /\ [][CallFmriprep]_vars

\* C6: run_fmriprep submits no job and returns None for a subject that has no
\* anatomical T1w image, or that has no functional BOLD image together with a
\* field map, in the BIDS input directory.
C6_NoInputNoFmriprepJob ==
    (pc = "run_fmriprep_done"
     /\ (~arg.fs.has_anat \/ ~(arg.fs.has_bold /\ arg.fs.has_fmap))) =>
        /\ res.ret = None
        /\ ~JobSubmitted

-----------------------------------------------------------------------------
(* SpecXcpd: run_xcpd on every state of one session's files *)

InitXcpd ==
    /\ pc = "run_xcpd"
    /\ arg \in [config : {c \in Configs : ~c.common.email /\ ~c.common.account
                                          /\ ~c.freesurfer.use_t2
                                          /\ ~c.freesurfer.skip_processed
                                          /\ ~c.fmriprep.skip_processed},
                fs : XcpdFileSystems, job_ids : {NoJobIds} \cup PendingJobIds,
                sbatch : SbatchOutcomes]
    /\ res = <<>>
    /\ MainIdle

CallXcpd ==
    /\ pc = "run_xcpd"
    /\ res' = run_xcpd(arg.config, arg.fs, "sub-01", "ses-01", arg.job_ids, arg.sbatch)
    /\ pc' = "run_xcpd_done"
    /\ UNCHANGED <<arg, mainVars>>

SpecXcpd == InitXcpd /\ [][CallXcpd]_vars

\* some fMRIPrep stdout log of the subject/session reports success
FmriprepFinished(fs) ==
    \E i \in DOMAIN fs.fmriprep_listing :
        fs.fmriprep_listing[i].named /\ fs.fmriprep_listing[i].success

\* C5: run_xcpd submits no XCP-D job for a (subject, session) for which
\* fMRIPrep has not finished successfully, unless at least one pending job id
\* is supplied to it as an afterok dependency; this holds for every dependency
\* argument the orchestrator can pass, including an empty list.
C5_NoXcpdBeforeFmriprep ==
    (pc = "run_xcpd_done"
     /\ ~FmriprepFinished(arg.fs)
     /\ (arg.job_ids.none \/ arg.job_ids.ids = <<>>)) =>
        ~JobSubmitted

-----------------------------------------------------------------------------
(* Spec: run_workflow.main.  One action per block of the loop over subjects  *)
(* and sessions.  The files a block reads are those present when it runs:    *)
(* jobs of this and of earlier runs write them while main is running.        *)

Subjects == 1..NSubjects

Sessions == 1..NSessions

SubjectNames == <<"sub-01", "sub-02", "sub-03", "sub-04">>

SessionNames == <<"ses-01", "ses-02", "ses-03", "ses-04">>

Workflows ==
    [run_mriqc_raw : BOOLEAN, run_freesurfer : BOOLEAN, run_qsiprep : BOOLEAN,
     run_qsirecon : BOOLEAN, run_fmriprep : BOOLEAN, run_mriqc_derivatives : BOOLEAN,
     run_xcpd : BOOLEAN, run_mriqc_group : BOOLEAN]

\* the configuration main is run with: every option on
MainConfigs ==
    {c \in Configs : /\ c.common.email /\ c.common.account
                     /\ c.freesurfer.use_t2 /\ c.freesurfer.skip_processed
                     /\ c.fmriprep.skip_processed}

\* utils.get_sessions: the session directories of a subject; the first
\* subject has NSessions of them, every other subject one
SessionsOf(s) == IF s = 1 THEN 1..NSessions ELSE {1}

InputDirs ==
    {[exists |-> FALSE, subjects |-> {}]}
    \cup {[exists |-> TRUE, subjects |-> S] : S \in SUBSET Subjects}

AllDirs ==
    FreesurferDirs \cup FmriprepDirs \cup XcpdDirs \cup QsiprepDirs \cup QsireconDirs
    \cup MriqcRawDirs

\* the stdout logs of one tool found for a session while main runs
MainListings == SeqsUpTo([named : {TRUE}, success : BOOLEAN], 1)

\* the files of one session that the blocks of main find
MainFreesurferFileSystems ==
    {fs \in [t1w : BOOLEAN, t2w : BOOLEAN, fs_dir : BOOLEAN,
             status_log : {l \in StatusLogs : Len(l.lines) <= 1},
             dirs : {AllDirs}, scripts : {{}}] :
        /\ ~fs.fs_dir => ~fs.status_log.exists
        /\ fs.t1w = fs.t2w}

MainFmriprepFileSystems ==
    {fs \in [has_anat : BOOLEAN, has_bold : BOOLEAN, has_fmap : BOOLEAN,
             fmriprep_output_dir : BOOLEAN, fmriprep_listing : MainListings,
             xcpd_listing : {<<>>}, dirs : {AllDirs}, scripts : {{}}] :
        /\ fs.has_anat = fs.has_bold /\ fs.has_bold = fs.has_fmap
        /\ fs.fmriprep_output_dir = fs.has_anat}

MainXcpdFileSystems ==
    [has_anat : {TRUE}, has_bold : {TRUE}, has_fmap : {TRUE},
     fmriprep_output_dir : {TRUE}, fmriprep_listing : MainListings,
     xcpd_listing : MainListings, dirs : {AllDirs}, scripts : {{}}]

MainMriqcFileSystems ==
    [mriqc_listing : MainListings, dirs : {AllDirs}, scripts : {{}}]

MainQsiprepFileSystems ==
    [qsiprep_listing : MainListings, dirs : {AllDirs}, scripts : {{}}]

\* SLURM reads the afterok list of the script it accepts
AfterOk(script) ==
    IF DependencyLinesOf(script) = {} THEN <<>>
    ELSE FieldsFrom(script[CHOOSE i \in DependencyLinesOf(script) : TRUE][2], <<>>, <<>>)

\* what sbatch answers while main runs: the next job number.  A refused
\* submission makes submit_job return None, which leaves main where a skipped
\* submission leaves it.
NextJobNumber == Len(slurm) + 1

MainSbatchOutcomes == {SbatchAccepts(NextJobNumber)}

\* the queue after a call of a run module: the job it submitted, if sbatch took it
Queued(tool, r) ==
    IF r.submitted # <<>> /\ r.ret # None
    THEN Append(slurm, [tool |-> tool, subject |-> cursor.s, session |-> cursor.e,
                        job_id |-> r.ret, deps |-> AfterOk(r.submitted[1])])
    ELSE slurm

this_subject == SubjectNames[cursor.s]

this_session == SessionNames[cursor.e]

InitMain ==
    /\ pc = "start"
    /\ arg = <<>>
    /\ res = <<>>
    /\ workflow \in Workflows
    /\ run_config \in MainConfigs
    /\ input_dir \in InputDirs
    /\ cursor = [s |-> 1, e |-> 1]
    /\ freesurfer_job_id = None
    /\ qsiprep_job_id = None
    /\ fmriprep_job_id = None
    /\ xcpd_job_id = None
    /\ fmriprep_sub_job_ids = <<>>
    /\ slurm = <<>>
    /\ raised = NotRaised

constVars == <<arg, res, workflow, run_config, input_dir>>

\* lines 71-86: the sanity check and get_subjects
Start ==
    /\ pc = "start"
    /\ pc' = IF input_dir.exists THEN "subject" ELSE "done"
    /\ UNCHANGED <<constVars, cursor, freesurfer_job_id, qsiprep_job_id, fmriprep_job_id,
                   xcpd_job_id, fmriprep_sub_job_ids, slurm, raised>>

\* the head of the loop over subjects without the test of subject_exists
NextSubject_unchecked ==
    /\ pc = "subject"
    /\ IF cursor.s > NSubjects
       THEN /\ pc' = "mriqc_group"
            /\ UNCHANGED <<cursor, fmriprep_sub_job_ids>>
       ELSE /\ pc' = "session"
            /\ cursor' = [cursor EXCEPT !.e = 1]
            /\ fmriprep_sub_job_ids' = <<>>
    /\ UNCHANGED <<constVars, freesurfer_job_id, qsiprep_job_id, fmriprep_job_id,
                   xcpd_job_id, slurm, raised>>

\* lines 91-107: the head of the loop over subjects
NextSubject ==
    /\ pc = "subject"
    /\ IF cursor.s > NSubjects
       THEN /\ pc' = "mriqc_group"
            /\ UNCHANGED <<cursor, fmriprep_sub_job_ids>>
       ELSE IF cursor.s \notin input_dir.subjects
       THEN /\ pc' = "subject"
            /\ cursor' = [s |-> cursor.s + 1, e |-> 1]
            /\ UNCHANGED fmriprep_sub_job_ids
       ELSE /\ pc' = "session"
            /\ cursor' = [cursor EXCEPT !.e = 1]
            /\ fmriprep_sub_job_ids' = <<>>
    /\ UNCHANGED <<constVars, freesurfer_job_id, qsiprep_job_id, fmriprep_job_id,
                   xcpd_job_id, slurm, raised>>

\* lines 109-111: the head of the loop over sessions
NextSession ==
    /\ pc = "session"
    /\ IF cursor.e \notin SessionsOf(cursor.s)
       THEN /\ pc' = "subject"
            /\ cursor' = [s |-> cursor.s + 1, e |-> 1]
       ELSE /\ pc' = "mriqc_raw"
            /\ UNCHANGED cursor
    /\ UNCHANGED <<constVars, freesurfer_job_id, qsiprep_job_id, fmriprep_job_id,
                   xcpd_job_id, fmriprep_sub_job_ids, slurm, raised>>

\* lines 116-127: 0. MRIQC on raw BIDS data
StageMriqcRaw ==
    /\ pc = "mriqc_raw"
    /\ IF workflow.run_mriqc_raw
       THEN \E fs \in MainMriqcFileSystems, sbatch \in MainSbatchOutcomes :
                LET r == run_mriqc(run_config, fs, this_subject, this_session, NoJobIds, sbatch)
                IN  slurm' = Queued("mriqc_raw", r)
       ELSE UNCHANGED slurm
    /\ pc' = "freesurfer"
    /\ UNCHANGED <<constVars, cursor, freesurfer_job_id, qsiprep_job_id, fmriprep_job_id,
                   xcpd_job_id, fmriprep_sub_job_ids, raised>>

\* lines 131-137: 1. FREESURFER
StageFreesurfer ==
    /\ pc = "freesurfer"
    /\ IF workflow.run_freesurfer
       THEN \E fs \in MainFreesurferFileSystems, sbatch \in MainSbatchOutcomes :
                LET r == run_freesurfer(run_config, fs, this_subject, this_session, sbatch)
                IN  IF r.raised # ""
                    THEN /\ pc' = "raised"
                         /\ raised' = [exc |-> r.raised, stage |-> "freesurfer"]
                         /\ UNCHANGED <<freesurfer_job_id, slurm>>
                    ELSE /\ pc' = "qsiprep"
                         /\ freesurfer_job_id' = r.ret
                         /\ slurm' = Queued("freesurfer", r)
                         /\ UNCHANGED raised
       ELSE /\ pc' = "qsiprep"
            /\ freesurfer_job_id' = None
            /\ UNCHANGED <<slurm, raised>>
    /\ UNCHANGED <<constVars, cursor, qsiprep_job_id, fmriprep_job_id,
                   xcpd_job_id, fmriprep_sub_job_ids>>

\* lines 142-148: 2. QSIprep
StageQsiprep ==
    /\ pc = "qsiprep"
    /\ IF workflow.run_qsiprep
       THEN \E fs \in MainQsiprepFileSystems, sbatch \in MainSbatchOutcomes :
                LET r == run_qsiprep(run_config, fs, this_subject, this_session, NoJobIds, sbatch)
                IN  IF r.raised # ""
                    THEN /\ pc' = "raised"
                         /\ raised' = [exc |-> r.raised, stage |-> "qsiprep"]
                         /\ UNCHANGED <<qsiprep_job_id, slurm>>
                    ELSE /\ pc' = "qsirecon"
                         /\ qsiprep_job_id' = r.ret
                         /\ slurm' = Queued("qsiprep", r)
                         /\ UNCHANGED raised
       ELSE /\ pc' = "qsirecon"
            /\ qsiprep_job_id' = None
            /\ UNCHANGED <<slurm, raised>>
    /\ UNCHANGED <<constVars, cursor, freesurfer_job_id, fmriprep_job_id,
                   xcpd_job_id, fmriprep_sub_job_ids>>

\* lines 150-157: QSIrecon; main calls run_qsirecon(run_config, this_subject, this_session,
\* dependencies), four positional arguments
StageQsirecon ==
    /\ pc = "qsirecon"
    /\ IF workflow.run_qsirecon
       THEN LET dependencies == FilterNotNone(<<freesurfer_job_id, qsiprep_job_id>>)
            IN  IF TooManyPositional(4, run_qsirecon_parameters)
                THEN /\ pc' = "raised"
                     /\ raised' = [exc |-> "TypeError", stage |-> "qsirecon"]
                     /\ UNCHANGED slurm
                ELSE \E fs \in MainQsiprepFileSystems, sbatch \in MainSbatchOutcomes :
                         LET r == run_qsirecon(run_config, fs, this_subject, this_session,
                                               JobIds(dependencies), sbatch)
                         IN  /\ pc' = "fmriprep"
                             /\ slurm' = Queued("qsirecon", r)
                             /\ UNCHANGED raised
       ELSE /\ pc' = "fmriprep"
            /\ UNCHANGED <<slurm, raised>>
    /\ UNCHANGED <<constVars, cursor, freesurfer_job_id, qsiprep_job_id, fmriprep_job_id,
                   xcpd_job_id, fmriprep_sub_job_ids>>

\* the fMRIPrep block with the FreeSurfer job as its only dependency
StageFmriprep_unchained ==
    /\ pc = "fmriprep"
    /\ IF workflow.run_fmriprep
       THEN LET dependencies ==
                    FilterNotNone(<<freesurfer_job_id>>)
            IN  \E fs \in MainFmriprepFileSystems, sbatch \in MainSbatchOutcomes :
                    LET r == run_fmriprep(run_config, fs, this_subject, this_session,
                                          JobIds(dependencies), sbatch)
                    IN  /\ fmriprep_job_id' = r.ret
                        /\ fmriprep_sub_job_ids' = Append(fmriprep_sub_job_ids, r.ret)
                        /\ slurm' = Queued("fmriprep", r)
       ELSE /\ fmriprep_job_id' = None
            /\ UNCHANGED <<fmriprep_sub_job_ids, slurm>>
    /\ pc' = "qc_fmriprep"
    /\ UNCHANGED <<constVars, cursor, freesurfer_job_id, qsiprep_job_id, xcpd_job_id,
                   raised>>

\* lines 163-173: 3.a fMRIPrep
StageFmriprep ==
    /\ pc = "fmriprep"
    /\ IF workflow.run_fmriprep
       THEN LET dependencies ==
                    FilterNotNone(<<freesurfer_job_id>> \o fmriprep_sub_job_ids)
            IN  \E fs \in MainFmriprepFileSystems, sbatch \in MainSbatchOutcomes :
                    LET r == run_fmriprep(run_config, fs, this_subject, this_session,
                                          JobIds(dependencies), sbatch)
                    IN  /\ fmriprep_job_id' = r.ret
                        /\ fmriprep_sub_job_ids' = Append(fmriprep_sub_job_ids, r.ret)
                        /\ slurm' = Queued("fmriprep", r)
       ELSE /\ fmriprep_job_id' = None
            /\ UNCHANGED <<fmriprep_sub_job_ids, slurm>>
    /\ pc' = "qc_fmriprep"
    /\ UNCHANGED <<constVars, cursor, freesurfer_job_id, qsiprep_job_id, xcpd_job_id,
                   raised>>

\* lines 179-190: 3.b QC fMRIPrep; the value of the call is bound to
\* mriqc_fmriprep_job_id, which main never reads, and the else branch
\* assigns fmriprep_job_id
StageQcFmriprep ==
    /\ pc = "qc_fmriprep"
    /\ IF workflow.run_mriqc_derivatives
       THEN UNCHANGED fmriprep_job_id
       ELSE fmriprep_job_id' = None
    /\ pc' = "xcpd"
    /\ UNCHANGED <<constVars, cursor, freesurfer_job_id, qsiprep_job_id, xcpd_job_id,
                   fmriprep_sub_job_ids, slurm, raised>>

\* lines 196-208: 4.a XCP-D
StageXcpd ==
    /\ pc = "xcpd"
    /\ IF workflow.run_xcpd
       THEN LET dependencies_xcpd ==
                    FilterNotNone(<<freesurfer_job_id, fmriprep_job_id>>)
            IN  \E fs \in MainXcpdFileSystems, sbatch \in MainSbatchOutcomes :
                    LET r == run_xcpd(run_config, fs, this_subject, this_session,
                                      JobIds(dependencies_xcpd), sbatch)
                    IN  /\ xcpd_job_id' = r.ret
                        /\ slurm' = Queued("xcp_d", r)
       ELSE /\ xcpd_job_id' = None
            /\ UNCHANGED slurm
    /\ pc' = "qc_xcpd"
    /\ UNCHANGED <<constVars, cursor, freesurfer_job_id, qsiprep_job_id, fmriprep_job_id,
                   fmriprep_sub_job_ids, raised>>

\* lines 214-225: 4.b QC on XCP-D, whose value main never reads; the body of
\* the loop over sessions ends here
StageQcXcpd ==
    /\ pc = "qc_xcpd"
    /\ pc' = "session"
    /\ cursor' = [cursor EXCEPT !.e = @ + 1]
    /\ UNCHANGED <<constVars, freesurfer_job_id, qsiprep_job_id, fmriprep_job_id,
                   xcpd_job_id, fmriprep_sub_job_ids, slurm, raised>>

\* run_mriqc_group reads config.config["common"]; main hands it the dict that
\* utils.load_config returned, which has no attribute config
run_mriqc_group(config, data_type) ==
    [ret |-> None, raised |-> "AttributeError", submitted |-> <<>>]

\* lines 293-335: group-level MRIQC jobs
StageMriqcGroup ==
    /\ pc = "mriqc_group"
    /\ IF workflow.run_mriqc_group
       THEN LET r == run_mriqc_group(run_config, "raw")
            IN  IF r.raised # ""
                THEN /\ pc' = "raised"
                     /\ raised' = [exc |-> r.raised, stage |-> "mriqc_group"]
                ELSE /\ pc' = "done"
                     /\ UNCHANGED raised
       ELSE /\ pc' = "done"
            /\ UNCHANGED raised
    /\ UNCHANGED <<constVars, cursor, freesurfer_job_id, qsiprep_job_id, fmriprep_job_id,
                   xcpd_job_id, fmriprep_sub_job_ids, slurm>>

Next ==
    \/ Start
    \/ NextSubject
    \/ NextSession
    \/ StageMriqcRaw
    \/ StageFreesurfer
    \/ StageQsiprep
    \/ StageQsirecon
    \/ StageFmriprep
    \/ StageQcFmriprep
    \/ StageXcpd
    \/ StageQcXcpd
    \/ StageMriqcGroup

Spec == InitMain /\ [][Next]_vars

\* the jobs of a tool that SLURM accepted for a subject and session
JobsOf(tool, s, e) ==
    {j \in DOMAIN slurm : /\ slurm[j].tool = tool
                          /\ slurm[j].subject = s
                          /\ slurm[j].session = e}

\* C1: whenever an fMRIPrep job and an XCP-D job were both submitted for the
\* same subject and session, the afterok list of the XCP-D job names the
\* fMRIPrep job id, whatever the other workflow switches are.
C1_XcpdWaitsForFmriprep ==
    \A s \in Subjects, e \in Sessions :
        \A f \in JobsOf("fmriprep", s, e), x \in JobsOf("xcp_d", s, e) :
            slurm[f].job_id \in Range(slurm[x].deps)

\* C2: with QSIRecon enabled, main gets past the QSIRecon block of every
\* session, and the QSIRecon job of a subject and session waits for exactly
\* the FreeSurfer and QSIPrep jobs submitted for that subject and session.
C2_QsireconWaitsForItsInputs ==
    /\ raised.stage # "qsirecon"
    /\ \A s \in Subjects, e \in Sessions :
           \A q \in JobsOf("qsirecon", s, e) :
               Range(slurm[q].deps) =
                   {slurm[j].job_id :
                        j \in JobsOf("freesurfer", s, e) \cup JobsOf("qsiprep", s, e)}

-----------------------------------------------------------------------------
(* utils.extract_runtime *)

MaxPieces == 3     \* pieces of text a log is made of

Digits == {"0", "1", "2", "3", "4", "5", "6", "7", "8", "9"}

\* int() of one digit
DigitValue(c) == CHOOSE d \in 0..9 : Digit(d) = c

\* int() of the two digits of s at i and i + 1
TwoDigitsAt(s, i) == 10 * DigitValue(s[i]) + DigitValue(s[i + 1])

\* r"\d{6}-\d{2}:\d{2}:\d{2}" matches at position i of s
timestamp_pattern(s, i) ==
    /\ i + 14 <= Len(s)
    /\ \A k \in {0, 1, 2, 3, 4, 5, 7, 8, 10, 11, 13, 14} : s[i + k] \in Digits
    /\ s[i + 6] = "-"
    /\ s[i + 9] = ":"
    /\ s[i + 12] = ":"

\* re.findall: the matches found scanning from the left, each search
\* resuming after the end of the previous match
RECURSIVE findall(_, _, _)
findall(s, i, acc) ==
    IF i > Len(s) THEN acc
    ELSE IF timestamp_pattern(s, i)
    THEN findall(s, i + 15, Append(acc, SubSeq(s, i, i + 14)))
    ELSE findall(s, i + 1, acc)

\* %y: 69..99 are 1969..1999, 00..68 are 2000..2068
Year(yy) == IF yy <= 68 THEN 2000 + yy ELSE 1900 + yy

IsLeap(y) == y % 4 = 0 /\ (y % 100 # 0 \/ y % 400 = 0)

DaysInMonth(y, m) ==
    IF m = 2 THEN (IF IsLeap(y) THEN 29 ELSE 28)
    ELSE IF m \in {4, 6, 9, 11} THEN 30 ELSE 31

RECURSIVE DaysBeforeMonth(_, _)
DaysBeforeMonth(y, m) ==
    IF m = 1 THEN 0 ELSE DaysBeforeMonth(y, m - 1) + DaysInMonth(y, m - 1)

\* datetime.toordinal
ToOrdinal(y, m, d) ==
    (y - 1) * 365 + (y - 1) \div 4 - (y - 1) \div 100 + (y - 1) \div 400
    + DaysBeforeMonth(y, m) + d

\* datetime.strptime(ts, "%y%m%d-%H:%M:%S"): the date and time of a match, or
\* ValueError when its fields are no date and time
strptime(ts) ==
    LET y  == Year(TwoDigitsAt(ts, 1))
        m  == TwoDigitsAt(ts, 3)
        d  == TwoDigitsAt(ts, 5)
        hh == TwoDigitsAt(ts, 8)
        mm == TwoDigitsAt(ts, 11)
        ss == TwoDigitsAt(ts, 14)
    IN  IF /\ m \in 1..12
           /\ d >= 1 /\ d <= DaysInMonth(y, IF m \in 1..12 THEN m ELSE 1)
           /\ hh <= 23 /\ mm <= 59 /\ ss <= 59
        THEN [raised |-> "", ordinal |-> ToOrdinal(y, m, d),
              second |-> hh * 3600 + mm * 60 + ss]
        ELSE [raised |-> "ValueError", ordinal |-> 0, second |-> 0]

\* last - first: a timedelta, normalised to 0 <= seconds < 86400
timedelta(first, last) ==
    IF last.second >= first.second
    THEN [days |-> last.ordinal - first.ordinal, seconds |-> last.second - first.second]
    ELSE [days |-> last.ordinal - first.ordinal - 1,
          seconds |-> last.second - first.second + 86400]

\* the int 0 that extract_runtime and read_log start from
ZeroRuntime == [days |-> 0, seconds |-> 0]

\* parses only the first of the matches
extract_runtime_first_only(content) ==
    LET timestamps == findall(content, 1, <<>>)
    IN  IF timestamps = <<>> THEN [ret |-> ZeroRuntime, raised |-> ""]
        ELSE IF strptime(timestamps[1]).raised # ""
        THEN [ret |-> ZeroRuntime, raised |-> "ValueError"]
        ELSE [ret |-> timedelta(strptime(timestamps[1]), strptime(timestamps[1])),
              raised |-> ""]

extract_runtime(content) ==
    LET timestamps == findall(content, 1, <<>>)
    IN  IF timestamps = <<>> THEN [ret |-> ZeroRuntime, raised |-> ""]
        ELSE LET first_timestamp == strptime(timestamps[1])
                 last_timestamp == strptime(timestamps[Len(timestamps)])
             IN  IF first_timestamp.raised # "" \/ last_timestamp.raised # ""
                 THEN [ret |-> ZeroRuntime, raised |-> "ValueError"]
                 ELSE [ret |-> timedelta(first_timestamp, last_timestamp), raised |-> ""]

(* SpecRuntime: extract_runtime applied to log texts *)

TwoDigits(n) == <<Digit(n \div 10), Digit(n % 10)>>

Stamp(yy, mo, dd, hh, mm, ss) ==
    TwoDigits(yy) \o TwoDigits(mo) \o TwoDigits(dd) \o <<"-">>
    \o TwoDigits(hh) \o <<":">> \o TwoDigits(mm) \o <<":">> \o TwoDigits(ss)

\* what a log is made of: words, digits, and timestamps, some of which no
\* calendar has
LogPieces ==
    { <<"o", "k", "\n">>,
      <<"7">>,
      <<"2", "5", "0", "1", "0", "1", "-", "0", "0", ":">>,
      Stamp(25, 2, 28, 23, 59, 59),
      Stamp(25, 3, 1, 0, 0, 30),
      Stamp(24, 2, 29, 12, 0, 0),
      Stamp(99, 12, 31, 23, 0, 0),
      Stamp(25, 2, 29, 12, 0, 0),
      Stamp(25, 13, 1, 0, 0, 0),
      Stamp(25, 1, 1, 24, 0, 0) }

RECURSIVE Concat(_)
Concat(pieces) == IF pieces = <<>> THEN <<>> ELSE Head(pieces) \o Concat(Tail(pieces))

LogTexts == {Concat(ps) : ps \in SeqsUpTo(LogPieces, MaxPieces)}

InitRuntime ==
    /\ pc = "extract_runtime"
    /\ arg \in [content : LogTexts]
    /\ res = <<>>
    /\ MainIdle

CallRuntime ==
    /\ pc = "extract_runtime"
    /\ res' = extract_runtime(arg.content)
    /\ pc' = "extract_runtime_done"
    /\ UNCHANGED <<arg, mainVars>>

SpecRuntime == InitRuntime /\ [][CallRuntime]_vars

\* the positions of a text where a timestamp YYMMDD-HH:MM:SS starts
StampPositions(s) == {i \in 1..Len(s) : timestamp_pattern(s, i)}

FirstStamp(s) ==
    LET i == CHOOSE i \in StampPositions(s) : \A j \in StampPositions(s) : i <= j
    IN  SubSeq(s, i, i + 14)

LastStamp(s) ==
    LET i == CHOOSE i \in StampPositions(s) : \A j \in StampPositions(s) : j <= i
    IN  SubSeq(s, i, i + 14)

\* the fields of a timestamp are a calendar date and a time of day
ValidStamp(ts) == strptime(ts).raised = ""

\* C17 as stated: extract_runtime returns 0 for a text without a timestamp
\* YYMMDD-HH:MM:SS, and for every other text returns the last timestamp minus
\* the first.
C17_RuntimeIsLastMinusFirst ==
    pc = "extract_runtime_done" =>
        /\ res.raised = ""
        /\ IF StampPositions(arg.content) = {}
           THEN res.ret = ZeroRuntime
           ELSE res.ret = timedelta(strptime(FirstStamp(arg.content)),
                                    strptime(LastStamp(arg.content)))

\* C17, amended: extract_runtime returns 0 for a text without a timestamp
\* YYMMDD-HH:MM:SS; it raises ValueError when the first or the last timestamp
\* of the text is no calendar date and time of day; for every other text it
\* returns the last timestamp minus the first.
C17_RuntimeOfValidStamps ==
    pc = "extract_runtime_done" =>
        IF StampPositions(arg.content) = {}
        THEN res.raised = "" /\ res.ret = ZeroRuntime
        ELSE IF ~ValidStamp(FirstStamp(arg.content)) \/ ~ValidStamp(LastStamp(arg.content))
        THEN res.raised = "ValueError"
        ELSE /\ res.raised = ""
             /\ res.ret = timedelta(strptime(FirstStamp(arg.content)),
                                    strptime(LastStamp(arg.content)))

C17_Witness ==
    /\ pc = "extract_runtime_done"
    /\ Cardinality(StampPositions(arg.content)) = 3
    /\ FirstStamp(arg.content) = Stamp(25, 2, 28, 23, 59, 59)
    /\ LastStamp(arg.content) = Stamp(25, 3, 1, 0, 0, 30)
    /\ res.ret = [days |-> 0, seconds |-> 31]

-----------------------------------------------------------------------------
(* utils.read_log *)

\* sub in s
contains(s, sub) ==
    \E i \in 1..(Len(s) - Len(sub) + 1) : SubSeq(s, i, i + Len(sub) - 1) = sub

endswith(s, suffix) ==
    /\ Len(suffix) <= Len(s)
    /\ SubSeq(s, Len(s) - Len(suffix) + 1, Len(s)) = suffix

FinishedSuccessfully ==
    <<"f", "i", "n", "i", "s", "h", "e", "d", " ", "s", "u", "c", "c", "e",
      "s", "s", "f", "u", "l", "l", "y">>

DotOut ==
    <<".", "o", "u", "t">>

\* the characters of the run types, subjects and sessions of the model
Chars(word) ==
    CASE word = "fmriprep" -> <<"f", "m", "r", "i", "p", "r", "e", "p">>
      [] word = "xcpd" -> <<"x", "c", "p", "d">>
      [] word = "freesurfer" -> <<"f", "r", "e", "e", "s", "u", "r", "f", "e", "r">>
      [] word = "fMRIPrep" -> <<"f", "M", "R", "I", "P", "r", "e", "p">>
      [] word = "XCP-D" -> <<"X", "C", "P", "-", "D">>
      [] word = "QSIPrep" -> <<"Q", "S", "I", "P", "r", "e", "p">>
      [] word = "QSIRecon" -> <<"Q", "S", "I", "R", "e", "c", "o", "n">>
      [] word = "MRIQC" -> <<"M", "R", "I", "Q", "C">>
      [] word = "qsiprep" -> <<"q", "s", "i", "p", "r", "e", "p">>
      [] word = "qsirecon" -> <<"q", "s", "i", "r", "e", "c", "o", "n">>
      [] word = "mriqc" -> <<"m", "r", "i", "q", "c">>
      [] word = "sub-01" -> <<"s", "u", "b", "-", "0", "1">>
      [] word = "ses-01" -> <<"s", "e", "s", "-", "0", "1">>
      [] word = "ses-02" -> <<"s", "e", "s", "-", "0", "2">>
      [] word = "raw" -> <<"r", "a", "w">>

success_string(runtype) ==
    IF runtype = "fmriprep" THEN Chars("fMRIPrep") \o <<" ">> \o FinishedSuccessfully
    ELSE IF runtype = "xcpd" THEN Chars("XCP-D") \o <<" ">> \o FinishedSuccessfully
    ELSE IF runtype = "qsiprep" THEN Chars("QSIPrep") \o <<" ">> \o FinishedSuccessfully
    ELSE IF runtype = "qsirecon" THEN Chars("QSIRecon") \o <<" ">> \o FinishedSuccessfully
    ELSE IF runtype = "mriqc" THEN Chars("MRIQC") \o <<" ">> \o FinishedSuccessfully
    ELSE FinishedSuccessfully

\* f"{runtype}_{subject}_{session}"
log_prefix(runtype, subject, session) ==
    Chars(runtype) \o <<"_">> \o Chars(subject) \o <<"_">> \o Chars(session)

\* [f for f in os.listdir(stdout_dir) if f.startswith(prefix) and f.endswith('.out')]
matching_files(listing, prefix) ==
    SelectSeq(listing, LAMBDA f : startswith(f.name, prefix) /\ endswith(f.name, DotOut))

\* the loop over log_files: the state after the files seen so far
RECURSIVE read_files(_, _, _)
read_files(files, success, state) ==
    IF files = <<>> THEN state
    ELSE IF contains(Head(files).content, success)
    THEN read_files(Tail(files), success,
                    [finished_status |-> "Success",
                     runtime |-> IF extract_runtime(Head(files).content).raised = ""
                                 THEN extract_runtime(Head(files).content).ret
                                 ELSE state.runtime])
    ELSE read_files(Tail(files), success, state)

\* stops at the first of the matching files
read_log_first_file(fs, subject, session, runtype) ==
    LET log_files == matching_files(fs.listing, log_prefix(runtype, subject, session))
    IN  IF ~fs.stdout_dir \/ log_files = <<>>
        THEN [finished_status |-> "Error", runtime |-> ZeroRuntime]
        ELSE read_files(<<log_files[1]>>, success_string(runtype),
                        [finished_status |-> "Error", runtime |-> ZeroRuntime])

read_log(fs, subject, session, runtype) ==
    LET log_files == matching_files(fs.listing, log_prefix(runtype, subject, session))
    IN  IF ~fs.stdout_dir
        THEN [finished_status |-> "Error", runtime |-> ZeroRuntime]
        ELSE IF log_files = <<>>
        THEN [finished_status |-> "Error", runtime |-> ZeroRuntime]
        ELSE read_files(log_files, success_string(runtype),
                        [finished_status |-> "Error", runtime |-> ZeroRuntime])

(* SpecLog: read_log applied to the stdout directory of a run type *)

Runtypes == {"fmriprep", "xcpd", "freesurfer"}

\* names found in <derivatives>/<runtype>/stdout, for the session asked for,
\* for another session, and for an error stream
LogNames(runtype) ==
    { log_prefix(runtype, "sub-01", "ses-01") \o <<"_", "7">> \o DotOut,
      log_prefix(runtype, "sub-01", "ses-01") \o <<"_", "7", ".", "e", "r", "r">>,
      log_prefix(runtype, "sub-01", "ses-02") \o <<"_", "8">> \o DotOut }

\* what a stdout log holds
LogContents ==
    { <<>>,
      Stamp(25, 2, 28, 23, 59, 59) \o <<"\n">> \o SubSeq(FinishedSuccessfully, 1, 8),
      Stamp(25, 2, 28, 23, 59, 59) \o success_string("xcpd") \o Stamp(25, 3, 1, 0, 0, 30),
      success_string("fmriprep") \o <<"\n">>,
      Stamp(25, 13, 1, 0, 0, 0) \o success_string("xcpd"),
      <<"n", "o", "t", " ">> \o FinishedSuccessfully }

LogFiles(runtype) == [name : LogNames(runtype), content : LogContents]

LogDirs(runtype) ==
    {[stdout_dir |-> FALSE, listing |-> <<>>]}
    \cup [stdout_dir : {TRUE}, listing : SeqsUpTo(LogFiles(runtype), MaxLogs)]

InitLog ==
    /\ pc = "read_log"
    /\ \E runtype \in Runtypes :
           arg \in [fs : LogDirs(runtype), subject : {"sub-01"}, session : {"ses-01"},
                    runtype : {runtype}]
    /\ res = <<>>
    /\ MainIdle

CallLog ==
    /\ pc = "read_log"
    /\ res' = read_log(arg.fs, arg.subject, arg.session, arg.runtype)
    /\ pc' = "read_log_done"
    /\ UNCHANGED <<arg, mainVars>>

SpecLog == InitLog /\ [][CallLog]_vars

\* the logs of the session asked for that report the run type's success
SuccessfulLogs(a) ==
    {i \in DOMAIN a.fs.listing :
        /\ startswith(a.fs.listing[i].name, log_prefix(a.runtype, a.subject, a.session))
        /\ endswith(a.fs.listing[i].name, DotOut)
        /\ contains(a.fs.listing[i].content, success_string(a.runtype))}

\* C11: read_log returns status 'Success' exactly when some file of
\* <derivatives>/<runtype>/stdout whose name starts with
\* <runtype>_<subject>_<session> and ends with .out contains the run type's
\* success string, however many other logs there are and wherever they are
\* listed; in every other case, a missing directory and no matching file
\* included, it returns ('Error', 0).
C11_SuccessIffSomeLogSucceeded ==
    pc = "read_log_done" =>
        IF arg.fs.stdout_dir /\ SuccessfulLogs(arg) # {}
        THEN res.finished_status = "Success"
        ELSE res = [finished_status |-> "Error", runtime |-> ZeroRuntime]

C11_Witness ==
    /\ pc = "read_log_done"
    /\ arg.runtype = "xcpd"
    /\ Len(arg.fs.listing) = 2
    /\ SuccessfulLogs(arg) = {2}
    /\ startswith(arg.fs.listing[1].name, log_prefix(arg.runtype, arg.subject, arg.session))
    /\ endswith(arg.fs.listing[1].name, DotOut)
    /\ res.finished_status = "Success"

-----------------------------------------------------------------------------
(* SpecProcessed: is_already_processed of XCP-D, QSIRecon and QSIPrep *)

\* returns from inside the first iteration of the loop over the stdout files
qsirecon_is_already_processed(fs) ==
    IF "qsirecon/stdout" \notin fs.dirs THEN FALSE
    ELSE IF stdout_files(fs.qsirecon_listing) = <<>> THEN FALSE
    ELSE stdout_files(fs.qsirecon_listing)[1].success

ProcessedTools == {"xcp_d", "qsirecon", "qsiprep"}

\* the stdout directory of the tool, absent or holding the listed logs
ProcessedFileSystems(tool) ==
    {[dirs |-> {}, xcpd_listing |-> <<>>, qsirecon_listing |-> <<>>,
      qsiprep_listing |-> <<>>]}
    \cup {[dirs |-> {"xcp_d/stdout", "qsirecon/stdout", "qsiprep/stdout"},
           xcpd_listing |-> l, qsirecon_listing |-> l, qsiprep_listing |-> l] :
             l \in Listings}

InitProcessed ==
    /\ pc = "is_already_processed"
    /\ \E tool \in ProcessedTools :
           arg \in [tool : {tool}, fs : ProcessedFileSystems(tool)]
    /\ res = <<>>
    /\ MainIdle

CallProcessed ==
    /\ pc = "is_already_processed"
    /\ res' = CASE arg.tool = "xcp_d" -> xcpd_is_already_processed(arg.fs)
                [] arg.tool = "qsirecon" -> qsirecon_is_already_processed(arg.fs)
                [] arg.tool = "qsiprep" -> qsiprep_is_already_processed(arg.fs)
    /\ pc' = "is_already_processed_done"
    /\ UNCHANGED <<arg, mainVars>>

SpecProcessed == InitProcessed /\ [][CallProcessed]_vars

\* C12: for XCP-D, QSIRecon and QSIPrep, is_already_processed returns True
\* when some stdout log of the subject and session holds the tool's completion
\* message and False otherwise, however many logs there are and in whatever
\* order they are listed.
C12_ProcessedIffSomeLogCompleted ==
    pc = "is_already_processed_done" =>
        (res <=> \E i \in DOMAIN arg.fs.xcpd_listing :
                     arg.fs.xcpd_listing[i].named /\ arg.fs.xcpd_listing[i].success)

-----------------------------------------------------------------------------
(* SpecMriqc: run_mriqc and run_mriqc_group with the logs of earlier MRIQC  *)
(* jobs in the stdout directories of the data types                         *)

MriqcCompleted ==
    <<"M", "R", "I", "Q", "C", " ", "c", "o", "m", "p", "l", "e", "t", "e", "d">>

\* #SBATCH --output=.../mriqc_{data_type}_{subject}_{session}_%j.out: the name
\* of the log that the job of a generated script writes
mriqc_output_name(data_type, subject, session, job) ==
    Chars("mriqc") \o <<"_">> \o Chars(data_type) \o <<"_">> \o Chars(subject)
    \o <<"_">> \o Chars(session) \o <<"_">> \o job \o DotOut

\* is_already_processed(config, subject, session, data_type="raw"), with the
\* names and the contents of the logs; fs maps a data type to its
\* mriqc_{data_type}/stdout directory
mriqc_raw_is_already_processed(fs, subject, session, data_type) ==
    LET prefix == Chars("mriqc") \o <<"_">> \o Chars(subject) \o <<"_">> \o Chars(session)
        found == matching_files(fs[data_type].listing, prefix)
    IN  IF ~fs[data_type].stdout_dir THEN FALSE
        ELSE IF found = <<>> THEN FALSE
        ELSE \E i \in DOMAIN found : contains(found[i].content, MriqcCompleted)

\* os.makedirs(f"{DERIVATIVES_DIR}/mriqc_{data_type}/stdout", exist_ok=True)
mriqc_makedirs(fs, data_type) == [fs EXCEPT ![data_type].stdout_dir = TRUE]

\* run_mriqc(config, subject, session, data_type, job_ids): it asks
\* is_already_processed(config, subject, session), without its data type
run_mriqc_of(config, fs, subject, session, data_type, job_ids, sbatch) ==
    LET made == mriqc_makedirs(fs, data_type)
    IN  IF mriqc_raw_is_already_processed(made, subject, session, "raw")
        THEN [ret |-> None, raised |-> "", submitted |-> <<>>]
        ELSE [ret |-> submit_job(sbatch).ret,
              raised |-> submit_job(sbatch).raised,
              submitted |-> <<generate_slurm_mriqc_script(config, subject, session, job_ids)>>]

MriqcDataTypes == {"raw", "fmriprep"}

\* the logs of a stdout directory: those that the MRIQC jobs of the data type
\* wrote for the session, and files named as is_already_processed expects
MriqcLogs(data_type) ==
    [name : { mriqc_output_name(data_type, "sub-01", "ses-01", <<"7">>),
              Chars("mriqc") \o <<"_">> \o Chars("sub-01") \o <<"_">> \o Chars("ses-01")
              \o <<"_", "7">> \o DotOut },
     content : { MriqcCompleted \o <<"\n">>, <<"M", "R", "I", "Q", "C", " ">> }]

MriqcDirs(data_type) ==
    {[stdout_dir |-> FALSE, listing |-> <<>>]}
    \cup [stdout_dir : {TRUE}, listing : SeqsUpTo(MriqcLogs(data_type), MaxLogs)]

InitMriqc ==
    /\ pc = "run_mriqc"
    /\ arg \in [level : {"participant", "group"},
                data_type : MriqcDataTypes,
                fs : {f \in [MriqcDataTypes -> UNION {MriqcDirs(d) : d \in MriqcDataTypes}] :
                        \A d \in MriqcDataTypes : f[d] \in MriqcDirs(d)},
                config : MainConfigs,
                sbatch : {SbatchAccepts(17)}]
    /\ res = <<>>
    /\ MainIdle

CallMriqc ==
    /\ pc = "run_mriqc"
    /\ arg.level = "participant"
    /\ res' = run_mriqc_of(arg.config, arg.fs, "sub-01", "ses-01", arg.data_type,
                           NoJobIds, arg.sbatch)
    /\ pc' = "run_mriqc_done"
    /\ UNCHANGED <<arg, mainVars>>

CallMriqcGroup ==
    /\ pc = "run_mriqc"
    /\ arg.level = "group"
    /\ res' = run_mriqc_group(arg.config, arg.data_type)
    /\ pc' = "run_mriqc_done"
    /\ UNCHANGED <<arg, mainVars>>

SpecMriqc == InitMriqc /\ [][CallMriqc \/ CallMriqcGroup]_vars

\* an earlier MRIQC job of the data type, subject and session wrote a log
\* that holds 'MRIQC completed'
EarlierMriqcCompleted(a) ==
    \E i \in DOMAIN a.fs[a.data_type].listing :
        /\ a.fs[a.data_type].listing[i].name =
               mriqc_output_name(a.data_type, "sub-01", "ses-01", <<"7">>)
        /\ contains(a.fs[a.data_type].listing[i].content, MriqcCompleted)

\* C13: run_mriqc and run_mriqc_group return None without submitting exactly
\* when a log written by an earlier MRIQC job of the same data type (and, for
\* run_mriqc, of the same subject and session) holds 'MRIQC completed'; a
\* completed run of another data type never makes them skip.
C13_SkipsIffSameDataTypeCompleted ==
    pc = "run_mriqc_done" =>
        /\ res.raised = ""
        /\ (res.ret = None /\ res.submitted = <<>>) <=> EarlierMriqcCompleted(arg)

-----------------------------------------------------------------------------
(* rsfmri/qc_xcpd_metrics_extractions.extract_qc_metrics *)

MaxQcSessions == 2     \* session directories of the subject in the XCP-D outputs

MIN_RETAINED_VOLS == 100

\* MAX_CENSOR_PCT = 50.0, in percent
MAX_CENSOR_PCT == 50

\* MAX_MEAN_FD = 0.5, in tenths
MAX_MEAN_FD == 5

\* def get_sessions(input_dir, subject, specified_sessions=None): the
\* parameters without a default
get_sessions_required == 2

\* a call with fewer positional arguments than the function has parameters
\* without a default raises TypeError
MissingPositional(given, required) == given < required

\* def read_log(config, subject, session, runtype)
read_log_parameters == {"config", "subject", "session", "runtype"}

\* a call with a keyword that names no parameter raises TypeError
UnexpectedKeyword(keyword, parameters) == keyword \notin parameters

\* np.isnan(mat).any() or not np.allclose(mat, mat.T), for a matrix given by
\* its two off-diagonal entries
InvalidMatrix(mat) ==
    \/ \E i \in DOMAIN mat : mat[i].nan
    \/ mat[1].v # mat[2].v

\* the loop over fc_files
fc_ok(fc_files) == \A i \in DOMAIN fc_files : ~InvalidMatrix(fc_files[i])

fail_reasons(sess) ==
    (IF sess.n_retained < MIN_RETAINED_VOLS THEN <<"Too few volumes">> ELSE <<>>)
    \o (IF sess.censor_pct > MAX_CENSOR_PCT THEN <<"Excessive censoring">> ELSE <<>>)
    \o (IF sess.mean_fd > MAX_MEAN_FD THEN <<"High motion">> ELSE <<>>)
    \o (IF ~fc_ok(sess.fc_files)
        THEN <<"Invalid Functional Connectivity matrix">> ELSE <<>>)

\* the body of the loop over sessions: the rows it appends; any exception in
\* it is caught and the session is skipped
session_rows(subject, sess) ==
    IF UnexpectedKeyword("run_type", read_log_parameters) THEN <<>>
    ELSE IF ~sess.has_qc_file THEN <<>>
    ELSE << [subject |-> subject, session |-> sess.session,
             status |-> IF fail_reasons(sess) # <<>> THEN "FAIL" ELSE "CORRECT",
             fail_reasons |-> fail_reasons(sess)] >>

RECURSIVE sessions_rows(_, _)
sessions_rows(subject, sessions) ==
    IF sessions = <<>> THEN <<>>
    ELSE session_rows(subject, Head(sessions)) \o sessions_rows(subject, Tail(sessions))

\* extract_qc_metrics(config, xcpd_dir): what it raises and the qc.csv it
\* writes; the loop over subjects calls utils.get_sessions(subject), one
\* positional argument
extract_qc_metrics(xcpd_dir) ==
    IF ~xcpd_dir.has_subject
    THEN [raised |-> "", written |-> TRUE, qc_csv |-> <<>>]
    ELSE IF MissingPositional(1, get_sessions_required)
    THEN [raised |-> "TypeError", written |-> FALSE, qc_csv |-> <<>>]
    ELSE [raised |-> "", written |-> TRUE,
          qc_csv |-> sessions_rows("sub-01", xcpd_dir.sessions)]

(* SpecXcpdQc: extract_qc_metrics applied to an XCP-D output directory *)

ConnectivityMatrices ==
    { <<[nan |-> FALSE, v |-> 1], [nan |-> FALSE, v |-> 1]>>,
      <<[nan |-> FALSE, v |-> 0], [nan |-> FALSE, v |-> 1]>>,
      <<[nan |-> TRUE, v |-> 0], [nan |-> TRUE, v |-> 0]>> }

\* what XCP-D left for one session: the first row of its *_qc.csv, if that
\* file is there, and its connectivity matrices
SessionOutputs(e) ==
    [session : {SessionNames[e]},
     has_qc_file : BOOLEAN,
     n_retained : {MIN_RETAINED_VOLS - 1, MIN_RETAINED_VOLS},
     censor_pct : {MAX_CENSOR_PCT, MAX_CENSOR_PCT + 1},
     mean_fd : {MAX_MEAN_FD, MAX_MEAN_FD + 1},
     fc_files : SeqsUpTo(ConnectivityMatrices, 1)]

XcpdOutputDirs ==
    {[has_subject |-> FALSE, sessions |-> <<>>]}
    \cup {[has_subject |-> TRUE, sessions |-> s] :
            s \in UNION {{f \in [1..k -> UNION {SessionOutputs(e) : e \in 1..k}] :
                            \A e \in 1..k : f[e] \in SessionOutputs(e)} :
                         k \in 0..MaxQcSessions}}

InitXcpdQc ==
    /\ pc = "extract_qc_metrics"
    /\ arg \in [xcpd_dir : XcpdOutputDirs]
    /\ res = <<>>
    /\ MainIdle

CallXcpdQc ==
    /\ pc = "extract_qc_metrics"
    /\ res' = extract_qc_metrics(arg.xcpd_dir)
    /\ pc' = "extract_qc_metrics_done"
    /\ UNCHANGED <<arg, mainVars>>

SpecXcpdQc == InitXcpdQc /\ [][CallXcpdQc]_vars

\* the criteria a session does not meet
UnmetCriteria(sess) ==
    {r \in {"Too few volumes", "Excessive censoring", "High motion",
            "Invalid Functional Connectivity matrix"} :
        \/ r = "Too few volumes" /\ sess.n_retained < 100
        \/ r = "Excessive censoring" /\ sess.censor_pct > 50
        \/ r = "High motion" /\ sess.mean_fd > 5
        \/ r = "Invalid Functional Connectivity matrix"
           /\ \E i \in DOMAIN sess.fc_files :
                  \/ sess.fc_files[i][1].nan \/ sess.fc_files[i][2].nan
                  \/ sess.fc_files[i][1].v # sess.fc_files[i][2].v}

RowsOf(session) == {i \in DOMAIN res.qc_csv : res.qc_csv[i].session = session}

\* C14: the XCP-D QC marks a session whose XCP-D QC file it can read 'FAIL'
\* exactly when the session misses a criterion (fewer than 100 retained
\* volumes, more than 50 percent censored, mean framewise displacement above
\* 0.5, an invalid connectivity matrix) and 'CORRECT' otherwise, with
\* fail_reasons the criteria missed; values on a threshold pass.
C14_FailIffSomeCriterionUnmet ==
    pc = "extract_qc_metrics_done" =>
        \A e \in DOMAIN arg.xcpd_dir.sessions :
            LET sess == arg.xcpd_dir.sessions[e]
            IN  sess.has_qc_file =>
                    \E i \in RowsOf(sess.session) :
                        /\ res.qc_csv[i].status =
                               IF UnmetCriteria(sess) = {} THEN "CORRECT" ELSE "FAIL"
                        /\ Range(res.qc_csv[i].fail_reasons) = UnmetCriteria(sess)
                        /\ Len(res.qc_csv[i].fail_reasons) = Cardinality(UnmetCriteria(sess))

\* C15: after the XCP-D QC extraction, qc.csv holds exactly one row for every
\* subject and session of the XCP-D output directory, whether or not the
\* session's tool run or its metric extraction succeeded.
C15_OneRowPerSession ==
    pc = "extract_qc_metrics_done" =>
        /\ res.written
        /\ Len(res.qc_csv) = Len(arg.xcpd_dir.sessions)
        /\ \A e \in DOMAIN arg.xcpd_dir.sessions :
               Cardinality(RowsOf(arg.xcpd_dir.sessions[e].session)) = 1

-----------------------------------------------------------------------------
(* dwi/qc_qsiprep.run_group_qc *)

\* the loop over subjects and sessions: qc_inhouse when it ends, or the
\* exception that ends it; next() on a glob without a match raises
\* StopIteration
RECURSIVE group_qc_loop(_, _)
group_qc_loop(sessions, qc_inhouse) ==
    IF sessions = <<>> THEN [raised |-> "", qc_inhouse |-> qc_inhouse]
    ELSE LET s == Head(sessions)
         IN  IF ~s.has_qc_csv THEN group_qc_loop(Tail(sessions), qc_inhouse)
             ELSE IF ~s.has_image_qc
             THEN [raised |-> "StopIteration", qc_inhouse |-> <<>>]
             ELSE group_qc_loop(Tail(sessions),
                                Append(qc_inhouse, <<s.subject, s.session>>))

\* run_group_qc(config, job_ids): what it raises and the rows of
\* group_additional_qc.csv, None when the file is not written; outputs are the
\* sessions under qsiprep/outputs as get_subjects and get_sessions list them
run_group_qc(config, outputs) ==
    LET loop == group_qc_loop(outputs, <<>>)
    IN  IF loop.raised # "" THEN [raised |-> loop.raised, group_additional_qc |-> None,
                                  written |-> FALSE]
        ELSE [raised |-> run_mriqc_group(config, "qsiprep").raised,
              group_additional_qc |-> loop.qc_inhouse,
              written |-> loop.qc_inhouse # <<>>]

(* SpecGroupQc: run_group_qc over the sessions of the QSIPrep outputs *)

\* the session directories there may be, in sorted subject-then-session order
GroupQcSlots == << <<"sub-01", "ses-01">>, <<"sub-01", "ses-02">>, <<"sub-02", "ses-01">> >>

\* one session directory: whether its QC CSV and its image-QC TSV exist
GroupQcSession(k) ==
    [subject : {GroupQcSlots[k][1]}, session : {GroupQcSlots[k][2]},
     has_qc_csv : BOOLEAN, has_image_qc : BOOLEAN]

\* the sessions present, in the order of the slots
RECURSIVE GroupQcOutputsFrom(_)
GroupQcOutputsFrom(k) ==
    IF k > Len(GroupQcSlots) THEN {<<>>}
    ELSE LET rest == GroupQcOutputsFrom(k + 1)
         IN  rest \cup {<<s>> \o r : s \in GroupQcSession(k), r \in rest}

InitGroupQc ==
    /\ pc = "run_group_qc"
    /\ arg \in [config : MainConfigs, outputs : GroupQcOutputsFrom(1)]
    /\ res = <<>>
    /\ MainIdle

CallGroupQc ==
    /\ pc = "run_group_qc"
    /\ res' = run_group_qc(arg.config, arg.outputs)
    /\ pc' = "run_group_qc_done"
    /\ UNCHANGED <<arg, mainVars>>

SpecGroupQc == InitGroupQc /\ [][CallGroupQc]_vars

\* the (subject, session) pairs of the outputs whose QC CSV exists, in order
WithQcCsv(outputs) ==
    LET F[i \in 0..Len(outputs)] ==
            IF i = 0 THEN <<>>
            ELSE IF outputs[i].has_qc_csv
                 THEN Append(F[i - 1], <<outputs[i].subject, outputs[i].session>>)
                 ELSE F[i - 1]
    IN  F[Len(outputs)]

\* C16: run_group_qc writes to group_additional_qc.csv the QC CSV of exactly
\* the sessions under the QSIPrep outputs whose QC CSV exists, each once and
\* in subject-then-session order; a session without its QC CSV or without its
\* image-QC TSV is skipped and does not abort the aggregation.
C16_GroupQcConcatenatesExistingCsvs ==
    pc = "run_group_qc_done" =>
        /\ res.raised # "StopIteration"
        /\ WithQcCsv(arg.outputs) # <<>> =>
               /\ res.written
               /\ res.group_additional_qc = WithQcCsv(arg.outputs)

-----------------------------------------------------------------------------
(* anat/qc_freesurfer.read_log *)

MaxLogLines == 4       \* lines of recon-all.log that a pattern can match

\* recon-all.log is kept as the sequence of its lines that some pattern of
\* read_log can match: the header of a hemisphere's Fix Topology section,
\* an Euler number line with the text between 'eno=' and '(', the run time
\* line with its hours, and the closing 'finished without error'
FixTopology(h) == [kind |-> "#@# Fix Topology", hemi |-> h, text |-> ""]

BeforeCorrection(t) == [kind |-> "before topology correction, eno=", hemi |-> "", text |-> t]

AfterCorrection(t) == [kind |-> "after topology correction, eno=", hemi |-> "", text |-> t]

RunTimeHours(t) == [kind |-> "#@#%# recon-all-run-time-hours", hemi |-> "", text |-> t]

FinishedWithoutError == [kind |-> "finished without error", hemi |-> "", text |-> ""]

\* np.nan, and group(1) of a match
np_nan == [found |-> FALSE, text |-> ""]

group1(t) == [found |-> TRUE, text |-> t]

\* re.compile(header .*? line, re.DOTALL).search(log_content): the match
\* starts at the first header and '.*?' runs, across line ends, up to the
\* first such line behind it
topo_search(log_content, h, kind) ==
    LET headers == {i \in DOMAIN log_content : log_content[i] = FixTopology(h)}
    IN  IF headers = {} THEN np_nan
        ELSE LET first == CHOOSE i \in headers : \A j \in headers : i <= j
                 lines == {i \in DOMAIN log_content :
                              i > first /\ log_content[i].kind = kind}
             IN  IF lines = {} THEN np_nan
                 ELSE group1(log_content[CHOOSE i \in lines :
                                             \A j \in lines : i <= j].text)

\* runtime_pattern.search(log_content)
runtime_search(log_content) ==
    LET lines == {i \in DOMAIN log_content :
                     log_content[i].kind = "#@#%# recon-all-run-time-hours"}
    IN  IF lines = {} THEN "Not found"
        ELSE log_content[CHOOSE i \in lines : \A j \in lines : i <= j].text

\* read_log(log_file), on the content of the file
qc_freesurfer_read_log(log_content) ==
    [finished_status |-> IF \E i \in DOMAIN log_content :
                                log_content[i] = FinishedWithoutError
                         THEN "Success" ELSE "Error",
     runtime |-> runtime_search(log_content),
     eno_before_lh |-> topo_search(log_content, "lh", "before topology correction, eno="),
     eno_before_rh |-> topo_search(log_content, "rh", "before topology correction, eno="),
     eno_after_lh |-> topo_search(log_content, "lh", "after topology correction, eno="),
     eno_after_rh |-> topo_search(log_content, "rh", "after topology correction, eno=")]

(* SpecReconLog: read_log applied to a recon-all.log *)

ReconLogLines ==
    {FixTopology("lh"), FixTopology("rh"), FinishedWithoutError, RunTimeHours("5.25")}
    \cup {BeforeCorrection(t) : t \in {"-30 ", "-12 "}}
    \cup {AfterCorrection(t) : t \in {"2 "}}

\* recon-all runs the Fix Topology step of a hemisphere once
ReconLogs ==
    {l \in SeqsUpTo(ReconLogLines, MaxLogLines) :
        \A h \in {"lh", "rh"} :
            Cardinality({i \in DOMAIN l : l[i] = FixTopology(h)}) <= 1}

InitReconLog ==
    /\ pc = "qc_freesurfer_read_log"
    /\ arg \in [log_content : ReconLogs]
    /\ res = <<>>
    /\ MainIdle

CallReconLog ==
    /\ pc = "qc_freesurfer_read_log"
    /\ res' = qc_freesurfer_read_log(arg.log_content)
    /\ pc' = "qc_freesurfer_read_log_done"
    /\ UNCHANGED <<arg, mainVars>>

SpecReconLog == InitReconLog /\ [][CallReconLog]_vars

\* the lines of hemisphere h's Fix Topology section: those behind its first
\* header and before the next section header
SectionOf(log_content, h) ==
    {i \in DOMAIN log_content :
        \E s \in DOMAIN log_content :
            /\ log_content[s] = FixTopology(h)
            /\ \A j \in 1..(s - 1) : log_content[j] # FixTopology(h)
            /\ i > s
            /\ \A j \in (s + 1)..i : log_content[j].kind # "#@# Fix Topology"}

\* the Euler number the section reports on its first line of that kind
ReportedIn(log_content, h, kind) ==
    LET lines == {i \in SectionOf(log_content, h) : log_content[i].kind = kind}
    IN  IF lines = {} THEN [found |-> FALSE, text |-> ""]
        ELSE [found |-> TRUE,
              text |-> log_content[CHOOSE i \in lines : \A j \in lines : i <= j].text]

\* C18: for each hemisphere, read_log returns the Euler numbers reported
\* before and after topology correction inside that hemisphere's own Fix
\* Topology section of recon-all.log, and NaN for each of the four values
\* whose line is absent from that section.
C18_EulerNumbersOfOwnSection ==
    pc = "qc_freesurfer_read_log_done" =>
        /\ res.eno_before_lh = ReportedIn(arg.log_content, "lh", "before topology correction, eno=")
        /\ res.eno_before_rh = ReportedIn(arg.log_content, "rh", "before topology correction, eno=")
        /\ res.eno_after_lh = ReportedIn(arg.log_content, "lh", "after topology correction, eno=")
        /\ res.eno_after_rh = ReportedIn(arg.log_content, "rh", "after topology correction, eno=")

-----------------------------------------------------------------------------
(* utils.get_subjects and utils.get_sessions *)

MaxSpecified == 2      \* entries of a specified list of subjects or sessions

\* ord() of the characters that directory names are made of here
ord(c) ==
    CASE c = "-" -> 45 [] c = "0" -> 48 [] c = "1" -> 49 [] c = "2" -> 50
      [] c = "b" -> 98 [] c = "e" -> 101 [] c = "s" -> 115 [] c = "u" -> 117

\* a < b for two str
RECURSIVE str_lt(_, _)
str_lt(a, b) ==
    IF b = <<>> THEN FALSE
    ELSE IF a = <<>> THEN TRUE
    ELSE IF Head(a) # Head(b) THEN ord(Head(a)) < ord(Head(b))
    ELSE str_lt(Tail(a), Tail(b))

\* sorted() of distinct str
RECURSIVE sorted(_)
sorted(names) ==
    IF names = {} THEN <<>>
    ELSE LET least == CHOOSE n \in names : \A m \in names \ {n} : str_lt(n, m)
         IN  <<least>> \o sorted(names \ {least})

\* prefixes every entry, whether or not it carries the prefix
always_prefixed(prefix, specified) ==
    [i \in DOMAIN specified |-> prefix \o specified[i]]

\* [f"{prefix}{x}" if not x.startswith(prefix) else x for x in specified]
with_prefix(prefix, specified) ==
    [i \in DOMAIN specified |->
        IF ~startswith(specified[i], prefix) THEN prefix \o specified[i]
        ELSE specified[i]]

\* sorted(d for d in os.listdir(path) if d.startswith(prefix) and isdir(d));
\* a listing maps the names of the directory to whether they are directories
sorted_dirs(listing, prefix) ==
    sorted({d \in DOMAIN listing : startswith(d, prefix) /\ listing[d]})

\* get_subjects(input_dir, specified_subjects=None), on the listing of
\* input_dir
get_subjects(input_path, specified_subjects) ==
    IF Truthy(specified_subjects)
    THEN with_prefix(<<"s", "u", "b", "-">>, specified_subjects.ids)
    ELSE sorted_dirs(input_path, <<"s", "u", "b", "-">>)

\* get_sessions(input_dir, subject, specified_sessions=None), on the listing
\* of the subject's directory
get_sessions(subject_path, specified_sessions) ==
    IF Truthy(specified_sessions)
    THEN with_prefix(<<"s", "e", "s", "-">>, specified_sessions.ids)
    ELSE sorted_dirs(subject_path, <<"s", "e", "s", "-">>)

(* SpecSubjects: get_subjects and get_sessions on a directory and a list *)

PrefixOf(fn) == IF fn = "get_subjects" THEN <<"s", "u", "b", "-">>
                ELSE <<"s", "e", "s", "-">>

\* names a dataset directory may hold, files or directories
DirNames ==
    {<<"s", "u", "b", "-", "0", "1">>, <<"s", "u", "b", "-", "0", "2">>,
     <<"s", "u", "b", "0", "1">>,
     <<"s", "e", "s", "-", "0", "1">>, <<"s", "e", "s", "-", "0", "2">>}

DirListings == UNION {[names -> BOOLEAN] : names \in SUBSET DirNames}

\* entries of a specified list, with and without the prefix
SpecifiedEntries(fn) ==
    {<<"0", "1">>, <<"0", "2">>, PrefixOf(fn) \o <<"0", "1">>, PrefixOf(fn) \o <<"0", "2">>}

\* None, or a list, which may be empty
SpecifiedLists(fn) ==
    {[none |-> TRUE, ids |-> <<>>]}
    \cup [none : {FALSE}, ids : SeqsUpTo(SpecifiedEntries(fn), MaxSpecified)]

InitSubjects ==
    /\ pc = "get"
    /\ \E fn \in {"get_subjects", "get_sessions"} :
           arg \in [fn : {fn}, listing : DirListings, specified : SpecifiedLists(fn)]
    /\ res = <<>>
    /\ MainIdle

CallGetSubjects ==
    /\ pc = "get"
    /\ arg.fn = "get_subjects"
    /\ res' = get_subjects(arg.listing, arg.specified)
    /\ pc' = "get_done"
    /\ UNCHANGED <<arg, mainVars>>

CallGetSessions ==
    /\ pc = "get"
    /\ arg.fn = "get_sessions"
    /\ res' = get_sessions(arg.listing, arg.specified)
    /\ pc' = "get_done"
    /\ UNCHANGED <<arg, mainVars>>

SpecSubjects == InitSubjects /\ [][CallGetSubjects \/ CallGetSessions]_vars

\* res is the list with the prefix put before exactly the entries lacking it
Normalised(list, prefix) ==
    /\ Len(res) = Len(list)
    /\ \A i \in DOMAIN list :
           res[i] = IF Len(list[i]) >= Len(prefix) /\ SubSeq(list[i], 1, Len(prefix)) = prefix
                    THEN list[i] ELSE prefix \o list[i]

\* res holds, in ascending order, the directories of the listing that carry
\* the prefix
SortedDirectories(listing, prefix) ==
    /\ Range(res) = {d \in DOMAIN listing :
                        /\ listing[d] /\ Len(d) >= Len(prefix)
                        /\ SubSeq(d, 1, Len(prefix)) = prefix}
    /\ \A i, j \in DOMAIN res : i < j => str_lt(res[i], res[j])

\* normalising res again gives res
Idempotent ==
    IF arg.fn = "get_subjects"
    THEN get_subjects(arg.listing, [none |-> FALSE, ids |-> res]) = res
    ELSE get_sessions(arg.listing, [none |-> FALSE, ids |-> res]) = res

-----------------------------------------------------------------------------
(* utils.resample *)

\* a volume: its shape and its voxel values, by index triple from 0
Indices(shape) == (0..(shape[1] - 1)) \X (0..(shape[2] - 1)) \X (0..(shape[3] - 1))

\* zoom's output shape: round(input length * zoom factor) on every axis, the
\* factor being target length / input length
zoom_output_shape(shape, target_shape) ==
    [i \in 1..3 |-> (2 * shape[i] * target_shape[i] + shape[i]) \div (2 * shape[i])]

\* the input coordinate, in halves, that zoom samples for output index o on an
\* axis of n input and m output points: o * (n - 1) / (m - 1), and 0 when m = 1
coordinate(o, n, m) == IF m = 1 THEN 0 ELSE (2 * o * (n - 1)) \div (m - 1)

\* zoom is called without order, so with order=3: cubic spline interpolation,
\* mode='nearest' only saying how the input is continued past its edges.
\* The weight, in halves, of input point i for a coordinate on an axis of one
\* or two points: the spline passes through the input at whole coordinates
\* and, the two points being mirror images, through their mean halfway
weight(i, c) ==
    IF c = 2 * i THEN 2
    ELSE IF c = 2 * i + 1 \/ c = 2 * i - 1 THEN 1
    ELSE 0

\* zoom(input, zoom_factors, mode='nearest'): the output's values in eighths
zoom(input, target_shape) ==
    LET shape == zoom_output_shape(input.shape, target_shape)
    IN  [shape |-> shape,
         eighths |->
            [o \in Indices(shape) |->
                LET w(i) == weight(i[1], coordinate(o[1], input.shape[1], shape[1]))
                            * weight(i[2], coordinate(o[2], input.shape[2], shape[2]))
                            * weight(i[3], coordinate(o[3], input.shape[3], shape[3]))
                    F[S \in SUBSET Indices(input.shape)] ==
                        IF S = {} THEN 0
                        ELSE LET i == CHOOSE x \in S : TRUE
                             IN  w(i) * input.data[i] + F[S \ {i}]
                IN  F[Indices(input.shape)]]]

\* resample(low_res_image, high_res_image)
resample(low_res_image, high_res_shape) == zoom(low_res_image, high_res_shape)

(* SpecResample: resample applied to small volumes *)

\* axes of one or two points, resampled to one, two or three points: the
\* coordinates sampled are then whole or halfway between the two points
LowResShapes == {1, 2} \X {1, 2} \X {1, 2}

HighResShapes == {<<1, 1, 1>>, <<2, 1, 1>>, <<3, 1, 1>>, <<1, 3, 2>>, <<2, 2, 3>>, <<3, 3, 3>>}

Volumes == UNION {[shape : {s}, data : [Indices(s) -> 0..1]] : s \in LowResShapes}

InitResample ==
    /\ pc = "resample"
    /\ arg \in [low_res_image : Volumes, high_res_shape : HighResShapes]
    /\ res = <<>>
    /\ MainIdle

CallResample ==
    /\ pc = "resample"
    /\ res' = resample(arg.low_res_image, arg.high_res_shape)
    /\ pc' = "resample_done"
    /\ UNCHANGED <<arg, mainVars>>

SpecResample == InitResample /\ [][CallResample]_vars

\* C20: resample returns a volume of exactly the high-resolution image's
\* shape, every voxel of which holds a value that occurs in the
\* low-resolution volume, as nearest-neighbour interpolation gives.
C20_NearestNeighbourOntoTargetGrid ==
    pc = "resample_done" =>
        /\ res.shape = arg.high_res_shape
        /\ \A o \in DOMAIN res.eighths :
               \E i \in DOMAIN arg.low_res_image.data :
                   res.eighths[o] = 8 * arg.low_res_image.data[i]

-----------------------------------------------------------------------------
(* main: the fMRIPrep jobs of a subject *)

\* the fMRIPrep jobs that SLURM accepted for a subject, by place in the queue
FmriprepJobsOf(s) ==
    {j \in DOMAIN slurm : slurm[j].tool = "fmriprep" /\ slurm[j].subject = s}

\* the ids on the afterok list of job j that are ids of fMRIPrep jobs
FmriprepDepsOf(j) ==
    {d \in Range(slurm[j].deps) :
        \E k \in DOMAIN slurm : slurm[k].tool = "fmriprep" /\ slurm[k].job_id = d}

-----------------------------------------------------------------------------
(* main: a requested subject without a directory *)

\* where main stands inside the body of the loop over sessions
InSessionLoop == pc \notin {"start", "subject", "mriqc_group", "done", "raised"}

-----------------------------------------------------------------------------
(* anat/qc_freesurfer.qc_freesurfer: the table built from the logs *)

\* cols, the column names given to the rows of frames
cols ==
    <<"subject", "session",
      "Number of folders generated",
      "Number of files generated",
      "Finished without error",
      "Processing time (hours)",
      "Euler number before topo correction LH",
      "Euler number after topo correction RH",
      "Euler number before topo correction LH",
      "Euler number after topo correction RH">>

\* list(info), info being the tuple read_log returns
list_info(info) ==
    <<info.finished_status, info.runtime, info.eno_before_lh, info.eno_before_rh,
      info.eno_after_lh, info.eno_after_rh>>

\* one turn of the loop over subjects_sessions, behind run_fsqc: the row
\* appended to frames; info stays None without recon-all.log, and list(None)
\* raises TypeError
frames_row(subject, session, subject_dir) ==
    IF subject_dir.log_exists
    THEN [raised |-> "",
          row |-> <<subject, session, subject_dir.dir_count, subject_dir.file_count>>
                  \o list_info(qc_freesurfer_read_log(subject_dir.log_content))]
    ELSE [raised |-> "TypeError", row |-> <<>>]

\* logs = pd.DataFrame(frames, columns=cols), for the one row
logs_table(subject, session, subject_dir) ==
    LET r == frames_row(subject, session, subject_dir)
    IN  [raised |-> r.raised, columns |-> cols, row |-> r.row]

(* SpecFsTable: the FreeSurfer QC table of one subject and session *)

SubjectDirs ==
    {[log_exists |-> FALSE, log_content |-> <<>>, dir_count |-> 0, file_count |-> 0]}
    \cup [log_exists : {TRUE}, log_content : ReconLogs, dir_count : {1}, file_count : {2}]

InitFsTable ==
    /\ pc = "qc_freesurfer"
    /\ arg \in [subject_dir : SubjectDirs]
    /\ res = <<>>
    /\ MainIdle

CallFsTable ==
    /\ pc = "qc_freesurfer"
    /\ res' = logs_table("sub-01", "ses-01", arg.subject_dir)
    /\ pc' = "qc_freesurfer_done"
    /\ UNCHANGED <<arg, mainVars>>

SpecFsTable == InitFsTable /\ [][CallFsTable]_vars

\* the name that identifies a hemisphere and a stage
EulerColumn(stage, hemi) ==
    CASE stage = "before" /\ hemi = "lh" -> "Euler number before topo correction LH"
      [] stage = "before" /\ hemi = "rh" -> "Euler number before topo correction RH"
      [] stage = "after" /\ hemi = "lh" -> "Euler number after topo correction LH"
      [] stage = "after" /\ hemi = "rh" -> "Euler number after topo correction RH"

\* the value read_log extracted for a hemisphere and a stage
EulerValue(stage, hemi) ==
    LET info == qc_freesurfer_read_log(arg.subject_dir.log_content)
    IN  CASE stage = "before" /\ hemi = "lh" -> info.eno_before_lh
          [] stage = "before" /\ hemi = "rh" -> info.eno_before_rh
          [] stage = "after" /\ hemi = "lh" -> info.eno_after_lh
          [] stage = "after" /\ hemi = "rh" -> info.eno_after_rh

\* C23: in the FreeSurfer QC table built for a session whose recon-all.log
\* exists, each of the four Euler numbers stands in a column of its own,
\* named after the hemisphere and the stage it was extracted for.
C23_EulerColumnsNamedAfterTheirValue ==
    pc = "qc_freesurfer_done" /\ arg.subject_dir.log_exists =>
        \A stage \in {"before", "after"}, hemi \in {"lh", "rh"} :
            LET named == {i \in DOMAIN res.columns : res.columns[i] = EulerColumn(stage, hemi)}
            IN  /\ Cardinality(named) = 1
                /\ \A i \in named : res.row[i] = EulerValue(stage, hemi)

-----------------------------------------------------------------------------
(* main: the group-level MRIQC jobs *)

\* C24: main gets through its group-level MRIQC block, and a group-level
\* MRIQC job waits (afterok) for every participant-level MRIQC job that the
\* same run submitted for its data type, so that it cannot start before they
\* all finished successfully.
C24_GroupMriqcWaitsForParticipants ==
    /\ raised.stage # "mriqc_group"
    /\ \A g, j \in DOMAIN slurm :
           slurm[g].tool = "mriqc_group" /\ slurm[j].tool = "mriqc_raw" =>
               slurm[j].job_id \in Range(slurm[g].deps)

-----------------------------------------------------------------------------
(* float64 arithmetic.  A whole number is kept as the sequence of its digits *)
(* in base 2^14, lowest first and without leading zeros; a positive float64  *)
(* as its significand m, 2^52 <= m < 2^53, and its exponent e: m * 2^e.      *)

Limb == 2^14

\* bits of a float64 significand
SignificandBits == 53

RECURSIVE Trim(_)
Trim(x) == IF x # <<>> /\ x[Len(x)] = 0 THEN Trim(SubSeq(x, 1, Len(x) - 1)) ELSE x

RECURSIVE MulCarry(_, _, _)
MulCarry(x, k, carry) ==
    IF x = <<>> THEN (IF carry = 0 THEN <<>> ELSE <<carry>>)
    ELSE LET v == Head(x) * k + carry
         IN  <<v % Limb>> \o MulCarry(Tail(x), k, v \div Limb)

\* x * k for 0 < k < 2^14
MulSmall(x, k) == MulCarry(x, k, 0)

\* quotient and remainder of x by d, 0 < d <= 2^14
RECURSIVE DivSmall(_, _)
DivSmall(x, d) ==
    IF x = <<>> THEN [q |-> <<>>, r |-> 0]
    ELSE LET hi == DivSmall(Tail(x), d)
             v == hi.r * Limb + Head(x)
         IN  [q |-> Trim(<<v \div d>> \o hi.q), r |-> v % d]

RECURSIVE AddCarry(_, _, _)
AddCarry(x, y, carry) ==
    IF x = <<>> /\ y = <<>> THEN (IF carry = 0 THEN <<>> ELSE <<carry>>)
    ELSE LET a == IF x = <<>> THEN 0 ELSE Head(x)
             b == IF y = <<>> THEN 0 ELSE Head(y)
             v == a + b + carry
         IN  <<v % Limb>> \o AddCarry(IF x = <<>> THEN x ELSE Tail(x),
                                      IF y = <<>> THEN y ELSE Tail(y), v \div Limb)

Add(x, y) == AddCarry(x, y, 0)

RECURSIVE SubBorrow(_, _, _)
SubBorrow(x, y, borrow) ==
    IF x = <<>> THEN <<>>
    ELSE LET b == IF y = <<>> THEN 0 ELSE Head(y)
             v == Head(x) - b - borrow
         IN  <<(v + Limb) % Limb>>
             \o SubBorrow(Tail(x), IF y = <<>> THEN y ELSE Tail(y), IF v < 0 THEN 1 ELSE 0)

\* x - y for x >= y
Sub(x, y) == Trim(SubBorrow(x, y, 0))

RECURSIVE Less(_, _)
Less(x, y) ==
    IF Len(x) # Len(y) THEN Len(x) < Len(y)
    ELSE IF x = <<>> THEN FALSE
    ELSE IF x[Len(x)] # y[Len(y)] THEN x[Len(x)] < y[Len(y)]
    ELSE Less(Trim(SubSeq(x, 1, Len(x) - 1)), Trim(SubSeq(y, 1, Len(y) - 1)))

RECURSIVE Mul(_, _)
Mul(x, y) ==
    IF y = <<>> \/ x = <<>> THEN <<>>
    ELSE Add(MulSmall(x, Head(y)), Trim(<<0>> \o Mul(x, Tail(y))))

\* x * 2^k
RECURSIVE ShiftLeft(_, _)
ShiftLeft(x, k) ==
    IF x = <<>> THEN <<>>
    ELSE IF k >= 14 THEN <<0>> \o ShiftLeft(x, k - 14)
    ELSE IF k = 0 THEN x
    ELSE MulSmall(x, 2^k)

\* 2^k
Pow2(k) == ShiftLeft(<<1>>, k)

\* quotient of x by 2^k, and whether a remainder is left
RECURSIVE ShiftRight(_, _)
ShiftRight(x, k) ==
    IF x = <<>> \/ k = 0 THEN [q |-> x, sticky |-> FALSE]
    ELSE IF k >= 14
    THEN LET rest == ShiftRight(Tail(x), k - 14)
         IN  [q |-> rest.q, sticky |-> rest.sticky \/ Head(x) # 0]
    ELSE LET d == DivSmall(x, 2^k)
         IN  [q |-> d.q, sticky |-> d.r # 0]

\* round to nearest, ties to even: q2 is the quotient with one bit more than
\* the significand keeps, sticky whether the division left a remainder
RoundHalfEven(q2, sticky) ==
    LET half == DivSmall(q2, 2)
    IN  IF half.r = 1 /\ (sticky \/ Head(half.q) % 2 = 1)
        THEN Add(half.q, <<1>>)
        ELSE half.q

\* the float64 of significand m and exponent e, m brought back under
\* 2^53 when rounding carried it there
Float(m, e) ==
    IF Less(m, Pow2(SignificandBits)) THEN [m |-> m, e |-> e]
    ELSE [m |-> DivSmall(m, 2).q, e |-> e + 1]

\* the float64 quotient n / d of two counts, 0 < n <= d < 2^14
RECURSIVE FloatDivFrom(_, _, _)
FloatDivFrom(n, d, s) ==
    LET q2 == DivSmall(ShiftLeft(<<n>>, s + 1), d)
    IN  IF Less(q2.q, Pow2(SignificandBits)) THEN FloatDivFrom(n, d, s + 1)
        ELSE Float(RoundHalfEven(q2.q, q2.r # 0), 0 - s)

FloatDiv(n, d) == FloatDivFrom(n, d, SignificandBits - 1)

\* the float64 product a * b
FloatMul(a, b) ==
    LET product == Mul(a.m, b.m)
        t == IF Less(product, Pow2(2 * SignificandBits - 1))
             THEN SignificandBits - 1 ELSE SignificandBits
        q2 == ShiftRight(product, t - 1)
    IN  Float(RoundHalfEven(q2.q, q2.sticky), a.e + b.e + t)

\* the sign of log2(p / q): that of the float64 quotient p / q less 1.  The
\* quotient rounds to 1 from 1 - 2^-54 up to 1 + 2^-53, both ends included.
LogSign(p, q) ==
    LET low == IF p.e < q.e THEN p.e ELSE q.e
        P == ShiftLeft(p.m, p.e - low)
        Q == ShiftLeft(q.m, q.e - low)
    IN  IF Less(ShiftLeft(P, SignificandBits + 1), Sub(ShiftLeft(Q, SignificandBits + 1), Q))
        THEN 0 - 1
        ELSE IF Less(Add(ShiftLeft(Q, SignificandBits), Q), ShiftLeft(P, SignificandBits))
        THEN 1
        ELSE 0


-----------------------------------------------------------------------------
(* utils.mutual_information and qc_fmriprep_metrics_extractions.mutual_information *)

MaxVoxels == 20
bins == 64

\* ndarray.min() and ndarray.max() of a non-empty flattened image.
ImageMin(image) == CHOOSE v \in Range(image) : \A w \in Range(image) : v <= w
ImageMax(image) == CHOOSE v \in Range(image) : \A w \in Range(image) : w <= v

\* (image - image.min()) / (image.max() - image.min()): every voxel of a
\* constant image is 0/0, which numpy evaluates to nan.
normalise(image) ==
    LET lo == ImageMin(image)
        hi == ImageMax(image)
    IN  [v \in DOMAIN image |->
            IF hi = lo THEN NaN ELSE Quotient(image[v] - lo, hi - lo)]

\* The bin of a value of [0, 1] among `bins` equal bins, the last bin closed
\* on the right; nan lies in no bin (0).
bin_index(value) ==
    IF value.nan THEN 0
    ELSE LET b == (value.num * bins) \div value.den
         IN  IF b >= bins THEN bins ELSE b + 1

\* np.histogram2d(..., range=[[0, 1], [0, 1]]): the count of each cell
\* [i][j]; a voxel with a nan coordinate lies in no cell.
histogram2d(flat1, flat2) ==
    LET bin1 == [v \in DOMAIN flat1 |-> bin_index(flat1[v])]
        bin2 == [v \in DOMAIN flat2 |-> bin_index(flat2[v])]
    IN  [i \in 1..bins |->
            LET in_row == {v \in DOMAIN flat1 : bin1[v] = i}
            IN  [j \in 1..bins |-> Cardinality({v \in in_row : bin2[v] = j})]]

\* np.histogram(..., range=[0, 1]).
histogram(flat) ==
    LET bin == [v \in DOMAIN flat |-> bin_index(flat[v])]
    IN  [b \in 1..bins |-> Cardinality({v \in DOMAIN flat : bin[v] = b})]

\* hist[lo] + ... + hist[hi], summed by halves.
RECURSIVE hist_sum(_, _, _)
hist_sum(hist, lo, hi) ==
    IF lo = hi THEN hist[lo]
    ELSE LET mid == (lo + hi) \div 2
         IN  hist_sum(hist, lo, mid) + hist_sum(hist, mid + 1, hi)

\* The marginal counts of a joint histogram along its second and first axis.
row_sums(hist) == [i \in 1..bins |-> hist_sum(hist[i], 1, bins)]
col_sums(hist) == [j \in 1..bins |-> hist_sum([i \in 1..bins |-> hist[i][j]], 1, bins)]

\* joint_hist.sum(): the sum of the sums of the rows.
hist2d_sum(hist) == hist_sum(row_sums(hist), 1, bins)

\* The sign of np.log2(joint_hist[i, j] / (hist1[i] * hist2[j])) in float64,
\* the three operands being the float64 quotients count / sum.
log2_sign(joint, h1, h2, joint_sum, sum1, sum2) ==
    LogSign(FloatDiv(joint, joint_sum),
            FloatMul(FloatDiv(h1, sum1), FloatDiv(h2, sum2)))

\* utils.mutual_information: np.histogram2d raises ValueError when the two
\* flattened images differ in length; otherwise mi is the sum of the terms
\* joint_hist[i, j] * log2(...) of the added cells; each term is kept as the
\* count of its cell (its weight is positive) and the sign of its logarithm.
mutual_information(image1, image2) ==
    LET flat_image1 == normalise(image1)
        flat_image2 == normalise(image2)
        joint_hist == histogram2d(flat_image1, flat_image2)
        hist1 == histogram(flat_image1)
        hist2 == histogram(flat_image2)
        joint_sum == hist2d_sum(joint_hist)
        sum1 == hist_sum(hist1, 1, bins)
        sum2 == hist_sum(hist2, 1, bins)
        \* the cells whose term the double loop adds: joint_hist[i, j] > 0
        \* and hist1[i] > 0 and hist2[j] > 0 after the divisions; a sum of 0
        \* makes every quotient nan, and nan > 0 is False
        rows == {i \in 1..bins : sum1 > 0 /\ hist1[i] > 0}
        columns == {j \in 1..bins : sum2 > 0 /\ hist2[j] > 0}
        cells == {c \in rows \X columns : joint_sum > 0 /\ joint_hist[c[1]][c[2]] > 0}
    IN  IF Len(image1) # Len(image2)
        THEN [raised |-> "ValueError", nan |-> FALSE, clipped |-> FALSE, terms |-> {}]
        ELSE [raised |-> "",
              nan |-> FALSE,
              clipped |-> FALSE,
              terms |-> {[cell |-> c,
                          count |-> joint_hist[c[1]][c[2]],
                          sign |-> log2_sign(joint_hist[c[1]][c[2]], hist1[c[1]], hist2[c[2]],
                                             joint_sum, sum1, sum2)] : c \in cells}]

\* The bin of a voxel when np.histogram2d is given no range: the range of an
\* axis is [min, max] of its image, and [min - 0.5, max + 0.5] when the image
\* is constant.
in_own_range(image) ==
    LET lo == ImageMin(image)
        hi == ImageMax(image)
    IN  [v \in DOMAIN image |->
            IF hi = lo THEN Quotient(1, 2) ELSE Quotient(image[v] - lo, hi - lo)]

\* qc_fmriprep_metrics_extractions.mutual_information: nan when the lengths
\* differ, else sklearn's mutual_info_score of the contingency table, which
\* sums over the non-zero cells and clips the sum at 0.
qc_mutual_information(img1, img2) ==
    IF Len(img1) # Len(img2)
    THEN [raised |-> "", nan |-> TRUE, clipped |-> FALSE, terms |-> {}]
    ELSE LET i1 == in_own_range(img1)
             i2 == in_own_range(img2)
             hgram == histogram2d(i1, i2)
             total == hist2d_sum(hgram)
             row == row_sums(hgram)
             col == col_sums(hgram)
             \* np.nonzero(contingency)
             nonzero == {c \in {i \in 1..bins : row[i] > 0} \X {j \in 1..bins : col[j] > 0} :
                            hgram[c[1]][c[2]] > 0}
         IN  [raised |-> "",
              nan |-> FALSE,
              clipped |-> TRUE,
              terms |-> {[cell |-> c,
                          count |-> hgram[c[1]][c[2]],
                          sign |-> log2_sign(hgram[c[1]][c[2]], row[c[1]], col[c[2]],
                                             total, total, total)] :
                            c \in nonzero}]

\* A run of n voxels of intensity v.
Run(n, v) == [i \in 1..n |-> v]

\* Pairs of two-intensity images of MaxVoxels voxels, one pair per
\* joint count table <<n00, n01, n10, n11>>; an image is constant when a row
\* or a column of the table is empty.  The second image of a pair may lack
\* its last voxel.
JointCounts ==
    {t \in (0..MaxVoxels) \X (0..MaxVoxels) \X (0..MaxVoxels) \X (0..MaxVoxels) :
        t[1] + t[2] + t[3] + t[4] = MaxVoxels}
ImagePairs ==
    {[image1 |-> Run(t[1] + t[2], 0) \o Run(t[3] + t[4], 1),
      image2 |-> SubSeq(Run(t[1], 0) \o Run(t[2], 1) \o Run(t[3], 0) \o Run(t[4], 1),
                        1, t[1] + t[2] + t[3] + t[4] - drop)] :
        t \in JointCounts, drop \in 0..1}

InitMutualInformation ==
    /\ pc = "mutual_information"
    /\ arg \in ImagePairs
    /\ res = <<>>
    /\ MainIdle

CallMutualInformation ==
    /\ pc = "mutual_information"
    /\ res' = mutual_information(arg.image1, arg.image2)
    /\ pc' = "mutual_information_done"
    /\ UNCHANGED <<arg, mainVars>>

CallQcMutualInformation ==
    /\ pc = "mutual_information"
    /\ res' = qc_mutual_information(arg.image1, arg.image2)
    /\ pc' = "qc_mutual_information_done"
    /\ UNCHANGED <<arg, mainVars>>

SpecMutualInformation ==
    InitMutualInformation /\ [][CallMutualInformation \/ CallQcMutualInformation]_vars

\* A sum of terms that is certainly below 0: it is not clipped, no term is
\* positive and some term is negative.
BelowZero(mi) ==
    /\ ~mi.clipped
    /\ \A t \in mi.terms : t.sign <= 0
    /\ \E t \in mi.terms : t.sign < 0

\* C25: for two images with the same number of voxels, a constant image
\* included, mutual_information returns a finite value (not nan) that is
\* greater than or equal to 0.
C25_MutualInformationFiniteNonNegative ==
    pc \in {"mutual_information_done", "qc_mutual_information_done"}
    /\ Len(arg.image1) = Len(arg.image2) =>
        res.raised = "" /\ ~res.nan /\ ~BelowZero(res)

====
